---- MODULE Spec2Model ----
(***************************************************************************)
(* Allocation engine of the accountant agent (flowshare-agents-backend):   *)
(* NetVolumeCalculator, TemperatureCorrector, APICorrector,                *)
(* ShrinkageCalculator and AllocationCalculator.                           *)
(*                                                                         *)
(* Python floats are modelled as exact rationals (a sign, a numerator and  *)
(* a denominator, both arbitrary-precision naturals held as sequences of   *)
(* base-10^4 digits, least significant first), and round(x, k) as rounding *)
(* to k decimals, ties to even.  Every arithmetic expression of the source *)
(* is translated term by term into the rational operators below.           *)
(***************************************************************************)
EXTENDS Integers, Sequences, FiniteSets, TLC

(***************************************************************************)
(* Arbitrary-precision naturals.  The operators split their digit ranges   *)
(* in halves, so that the depth of evaluation grows with the logarithm of  *)
(* the number of digits.                                                   *)
(***************************************************************************)
Base == 100 * 100

RECURSIVE BFromNat(_)
BFromNat(n) == IF n = 0 THEN << >> ELSE <<n % Base>> \o BFromNat(n \div Base)

MaxOf(S) == CHOOSE i \in S : \A j \in S : j <= i

\* without leading zero digits
BTrim(a) ==
  LET nz == {i \in 1..Len(a) : a[i] # 0}
  IN  IF nz = {} THEN << >> ELSE SubSeq(a, 1, MaxOf(nz))

BDigit(a, i) == IF i <= Len(a) THEN a[i] ELSE 0

\* <<digits lo..hi of a + b + carry, carry out>>
RECURSIVE BAddRange(_, _, _, _, _)
BAddRange(a, b, lo, hi, carry) ==
  IF lo = hi
  THEN LET t == BDigit(a, lo) + BDigit(b, lo) + carry
       IN  <<(<<t % Base>>), t \div Base>>
  ELSE LET low == BAddRange(a, b, lo, (lo + hi) \div 2, carry)
           high == BAddRange(a, b, (lo + hi) \div 2 + 1, hi, low[2])
       IN  <<low[1] \o high[1], high[2]>>

\* the digits r[1] with the carry r[2] on top of them
BCarry(r) == IF r[2] = 0 THEN r[1] ELSE Append(r[1], r[2])

BAdd(a, b) ==
  IF Len(a) = 0 THEN b
  ELSE IF Len(b) = 0 THEN a
  ELSE BCarry(BAddRange(a, b, 1,
                        IF Len(a) > Len(b) THEN Len(a) ELSE Len(b), 0))

\* <<digits lo..hi of a - b - borrow, borrow out>>
RECURSIVE BSubRange(_, _, _, _, _)
BSubRange(a, b, lo, hi, borrow) ==
  IF lo = hi
  THEN LET t == a[lo] - BDigit(b, lo) - borrow
       IN  IF t < 0 THEN <<(<<t + Base>>), 1>> ELSE <<(<<t>>), 0>>
  ELSE LET low == BSubRange(a, b, lo, (lo + hi) \div 2, borrow)
           high == BSubRange(a, b, (lo + hi) \div 2 + 1, hi, low[2])
       IN  <<low[1] \o high[1], high[2]>>

\* a - b for a >= b
BSub(a, b) ==
  IF Len(b) = 0 THEN a ELSE BTrim(BSubRange(a, b, 1, Len(a), 0)[1])

\* -1, 0 or 1 as a < b, a = b, a > b
BCmp(a, b) ==
  IF Len(a) > Len(b) THEN 1
  ELSE IF Len(a) < Len(b) THEN -1
  ELSE LET differ == {i \in 1..Len(a) : a[i] # b[i]}
       IN  IF differ = {} THEN 0
           ELSE IF a[MaxOf(differ)] > b[MaxOf(differ)] THEN 1 ELSE -1

BShift(a, n) == IF Len(a) = 0 THEN a ELSE [i \in 1..n |-> 0] \o a

\* <<digits lo..hi of a * k + carry, carry out>> for a single digit k
RECURSIVE BMulDigitRange(_, _, _, _, _)
BMulDigitRange(a, k, lo, hi, carry) ==
  IF lo = hi
  THEN <<(<<(a[lo] * k + carry) % Base>>), (a[lo] * k + carry) \div Base>>
  ELSE LET low == BMulDigitRange(a, k, lo, (lo + hi) \div 2, carry)
           high == BMulDigitRange(a, k, (lo + hi) \div 2 + 1, hi, low[2])
       IN  <<low[1] \o high[1], high[2]>>

BMulDigit(a, k) ==
  IF k = 0 \/ Len(a) = 0 THEN << >>
  ELSE BCarry(BMulDigitRange(a, k, 1, Len(a), 0))

\* the sum of a * b[i] * Base^(i-1) for i in lo..hi
RECURSIVE BMulRange(_, _, _, _)
BMulRange(a, b, lo, hi) ==
  IF lo = hi THEN BShift(BMulDigit(a, b[lo]), lo - 1)
  ELSE LET mid == (lo + hi) \div 2
           low == BMulRange(a, b, lo, mid)
           high == BMulRange(a, b, mid + 1, hi)
       IN  BAdd(low, high)

BMul(a, b) ==
  IF Len(a) = 0 \/ Len(b) = 0 THEN << >>
  ELSE IF Len(a) = 1 /\ Len(b) = 1 THEN BFromNat(a[1] * b[1])
  ELSE IF Len(b) = 1 THEN BMulDigit(a, b[1])
  ELSE IF Len(a) = 1 THEN BMulDigit(b, a[1])
  ELSE BMulRange(a, b, 1, Len(b))

\* floor(r / b) for r < b * Base and a leading digit of b of at least
\* Base / 2: the estimate from the leading digits is at most 2 too large
BQuotDigit(r, b) ==
  LET rt == BDigit(r, Len(b) + 1) * Base + BDigit(r, Len(b))
      hi == IF rt \div b[Len(b)] < Base THEN rt \div b[Len(b)] ELSE Base - 1
  IN  IF BCmp(BMulDigit(b, hi), r) <= 0 THEN hi
      ELSE IF BCmp(BMulDigit(b, hi - 1), r) <= 0 THEN hi - 1
      ELSE hi - 2

\* one step of the long division: the quotient digit d of cur / b, and the
\* remainder
BDivStep(cur, b, d) == <<(<<d>>), BSub(cur, BMulDigit(b, d))>>

BDivDigit(cur, b) == BDivStep(cur, b, BQuotDigit(cur, b))

\* long division of the digits hi down to lo of a, the remainder so far r:
\* <<quotient digits hi..lo, the most significant first, remainder>>
RECURSIVE BDivRange(_, _, _, _, _)
BDivRange(a, b, lo, hi, r) ==
  IF lo = hi THEN BDivDigit(BTrim(<<a[lo]>> \o r), b)
  ELSE LET high == BDivRange(a, b, (lo + hi) \div 2 + 1, hi, r)
           low == BDivRange(a, b, lo, (lo + hi) \div 2, high[2])
       IN  <<high[1] \o low[1], low[2]>>

\* the quotient digits of qr, the least significant first
BDivResult(qr, n, sb) ==
  <<BTrim([i \in 1..n |-> qr[1][n + 1 - i]]), qr[2], sb>>

BDivScaled(sa, sb) ==
  IF Len(sa) = 0 THEN <<(<< >>), << >>, sb>>
  ELSE BDivResult(BDivRange(sa, sb, 1, Len(sa), << >>), Len(sa), sb)

\* <<quotient, remainder, divisor>> of a / b, b > 0; both are scaled first so
\* that the leading digit of the divisor is at least Base / 2, and the
\* remainder and the divisor returned are the scaled ones
BDivMod(a, b) ==
  BDivScaled(BMulDigit(a, Base \div (b[Len(b)] + 1)),
             BMulDigit(b, Base \div (b[Len(b)] + 1)))

BIsOdd(a) == Len(a) > 0 /\ a[1] % 2 = 1

\* the quotient of qr, one more if c, which is how twice the remainder
\* compares with the divisor, and the parity of the quotient say so
BRoundTie(qr, c) ==
  IF c > 0 \/ (c = 0 /\ BIsOdd(qr[1])) THEN BAdd(qr[1], <<1>>) ELSE qr[1]

BRoundQuot(qr) == BRoundTie(qr, BCmp(BAdd(qr[2], qr[2]), qr[3]))

\* a / b rounded to the nearest natural, ties to even
BRoundDiv(a, b) == BRoundQuot(BDivMod(a, b))

(***************************************************************************)
(* Rationals: [s |-> sign, n |-> numerator, d |-> denominator]; s is 1 or  *)
(* -1 (1 for zero) and d > 0.  Representations are not normalised: compare *)
(* with QCmp, QEq, QLt, QLe.                                               *)
(***************************************************************************)
Zero == [s |-> 1, n |-> << >>, d |-> <<1>>]

Q(s, n, d) == IF Len(n) = 0 THEN Zero ELSE [s |-> s, n |-> n, d |-> d]

QInt(i) == IF i < 0 THEN Q(-1, BFromNat(-i), <<1>>) ELSE Q(1, BFromNat(i), <<1>>)

\* i / 10^k
QDec(i, k) ==
  IF i < 0 THEN Q(-1, BFromNat(-i), BFromNat(10 ^ k))
           ELSE Q(1, BFromNat(i), BFromNat(10 ^ k))

QIsZero(x) == Len(x.n) = 0

QSign(x) == IF Len(x.n) = 0 THEN 0 ELSE x.s

QNeg(x) == IF QIsZero(x) THEN Zero ELSE [x EXCEPT !.s = -x.s]

\* sign and magnitude of s1*m1 + s2*m2
QSum(s1, m1, s2, m2, d) ==
  IF s1 = s2 THEN Q(s1, BAdd(m1, m2), d)
  ELSE IF BCmp(m1, m2) >= 0 THEN Q(s1, BSub(m1, m2), d)
  ELSE Q(s2, BSub(m2, m1), d)

\* what to multiply x by and y by to bring them over one denominator, given
\* the denominators and their divisions by each other: the larger
\* denominator is kept when the smaller one divides it
MultipliersFrom(xd, yd, qx, qy) ==
  IF Len(qx[2]) = 0 THEN <<(<<1>>), qx[1]>>
  ELSE IF Len(qy[2]) = 0 THEN <<qy[1], <<1>> >>
  ELSE <<yd, xd>>

Multipliers(xd, yd) ==
  IF xd = yd THEN <<(<<1>>), <<1>> >>
  ELSE MultipliersFrom(xd, yd, BDivMod(xd, yd), BDivMod(yd, xd))

QAddScaled(x, y, m) ==
  QSum(x.s, BMul(x.n, m[1]), y.s, BMul(y.n, m[2]), BMul(x.d, m[1]))

QAdd(x, y) ==
  IF QIsZero(x) THEN y
  ELSE IF QIsZero(y) THEN x
  ELSE QAddScaled(x, y, Multipliers(x.d, y.d))

QSub(x, y) == IF QIsZero(y) THEN x ELSE QAdd(x, [y EXCEPT !.s = -y.s])

QMul(x, y) ==
  IF QIsZero(x) \/ QIsZero(y) THEN Zero
  ELSE [s |-> x.s * y.s, n |-> BMul(x.n, y.n), d |-> BMul(x.d, y.d)]

\* x / y, y # 0
QDiv(x, y) ==
  IF QIsZero(x) THEN Zero
  ELSE IF x.d = y.d THEN [s |-> x.s * y.s, n |-> x.n, d |-> y.n]
  ELSE [s |-> x.s * y.s, n |-> BMul(x.n, y.d), d |-> BMul(x.d, y.n)]

QCmp(x, y) ==
  IF QSign(x) # QSign(y) THEN (IF QSign(x) > QSign(y) THEN 1 ELSE -1)
  ELSE IF QSign(x) = 0 THEN 0
  ELSE IF x.d = y.d THEN x.s * BCmp(x.n, y.n)
  ELSE x.s * BCmp(BMul(x.n, y.d), BMul(y.n, x.d))

QEq(x, y) == QCmp(x, y) = 0
QLt(x, y) == QCmp(x, y) < 0
QLe(x, y) == QCmp(x, y) <= 0

QMax(x, y) == IF QLt(x, y) THEN y ELSE x
QMin(x, y) == IF QLt(y, x) THEN y ELSE x
QAbs(x) == IF QIsZero(x) THEN Zero ELSE [x EXCEPT !.s = 1]

\* Python's round(x, k): a decimal with k places, ties to even
QRound(x, k) ==
  IF QIsZero(x) THEN Zero
  ELSE Q(x.s, BRoundDiv(BMul(x.n, BFromNat(10 ^ k)), x.d), BFromNat(10 ^ k))

(***************************************************************************)
(* Python values.  A dictionary key that is absent is the value Missing;   *)
(* dict.get(key, default) is Get.  None (entry.get('partner') on an entry  *)
(* without the key) is NoneValue.                                          *)
(***************************************************************************)
Missing == [s |-> 0, n |-> << >>, d |-> << >>]
NoneValue == "None"

Get(v, default) == IF v = Missing THEN default ELSE v

(***************************************************************************)
(* TemperatureCorrector                                                    *)
(***************************************************************************)
STANDARD_TEMP_F == QInt(60)
MIN_VCF == QDec(95, 2)
MAX_VCF == QDec(105, 2)

\* the coefficients a0 + factor * a1 and b0 + factor * b1 of one range
Interpolated(factor, a0, a1, b0, b1) ==
  [alpha |-> QAdd(a0, QMul(factor, a1)), beta |-> QAdd(b0, QMul(factor, b1))]

get_correction_coefficients(api_gravity) ==
  IF QLe(api_gravity, QInt(10))
  THEN [alpha |-> QDec(3, 4), beta |-> QDec(1, 7)]
  ELSE IF QLe(api_gravity, QInt(25))
  THEN Interpolated(QDiv(QSub(api_gravity, QInt(10)), QInt(15)),
                    QDec(3, 4), QDec(1, 4), QDec(1, 7), QDec(1, 7))
  ELSE IF QLe(api_gravity, QInt(45))
  THEN Interpolated(QDiv(QSub(api_gravity, QInt(25)), QInt(20)),
                    QDec(4, 4), QDec(1, 4), QDec(2, 7), QDec(3, 7))
  ELSE [alpha |-> QDec(5, 4), beta |-> QDec(5, 7)]

\* TemperatureCorrector.calculate_correction with standard_temp = None
\* ConstrainedVcf without the constraint
UnconstrainedVcf(temp_diff, coeffs) ==
  QRound(QSub(QSub(QInt(1), QMul(coeffs.alpha, temp_diff)),
              QMul(coeffs.beta, QMul(temp_diff, temp_diff))), 6)

\* the volume correction factor for a temperature difference, constrained
\* and rounded
ConstrainedVcf(temp_diff, coeffs) ==
  QRound(QMax(MIN_VCF,
              QMin(MAX_VCF,
                   QSub(QSub(QInt(1), QMul(coeffs.alpha, temp_diff)),
                        QMul(coeffs.beta, QMul(temp_diff, temp_diff))))), 6)

temp_calculate_correction(observed_temp, api_gravity) ==
  ConstrainedVcf(QSub(observed_temp, STANDARD_TEMP_F),
                 get_correction_coefficients(api_gravity))

validate_temperature(temperature) ==
  QLe(QInt(-50), temperature) /\ QLe(temperature, QInt(200))

(***************************************************************************)
(* APICorrector                                                            *)
(***************************************************************************)
MIN_CORRECTION == QDec(9, 1)
MAX_CORRECTION == QDec(115, 2)

calculate_specific_gravity(api_gravity) ==
  QDiv(QDec(1415, 1), QAdd(api_gravity, QDec(1315, 1)))

\* APICorrector.calculate_correction
api_calculate_correction(observed_api, terminal_api) ==
  LET observed_sg == calculate_specific_gravity(observed_api)
      standard_sg == calculate_specific_gravity(terminal_api)
      correction == QDiv(standard_sg, observed_sg)
      correction_constrained ==
        QMax(MIN_CORRECTION, QMin(MAX_CORRECTION, correction))
  IN  QRound(correction_constrained, 6)

validate_api_gravity(api_gravity) ==
  QLe(QInt(10), api_gravity) /\ QLe(api_gravity, QInt(45))

(***************************************************************************)
(* NetVolumeCalculator                                                     *)
(***************************************************************************)
calculate_water_cut_factor(bsw_percent) ==
  QSub(QInt(1),
       QDiv(IF ~(QLe(QInt(0), bsw_percent) /\ QLt(bsw_percent, QInt(100)))
            THEN QMax(QInt(0), QMin(QDec(9999, 2), bsw_percent))
            ELSE bsw_percent,
            QInt(100)))

\* the result of calculate_net_volume from the three factors, the gross
\* volume less water gw and that volume corrected for temperature gwt
NetVolumeRecord(gross_volume, water_cut_factor, temp_correction, api_correction, gw, gwt) ==
  [water_cut_factor |-> QRound(water_cut_factor, 6),
   temp_correction |-> QRound(temp_correction, 6),
   api_correction |-> QRound(api_correction, 6),
   gross_volume |-> gross_volume,
   net_volume |-> QRound(QMul(gwt, api_correction), 2),
   bsw_deduction |-> QRound(QSub(gross_volume, gw), 2),
   temperature_adjustment |->
     QRound(QMul(gw, QSub(QInt(1), temp_correction)), 2),
   api_adjustment |->
     QRound(QMul(gwt, QSub(QInt(1), api_correction)), 2)]

WaterCorrected(gross_volume, water_cut_factor, temp_correction, api_correction, gw) ==
  NetVolumeRecord(gross_volume, water_cut_factor, temp_correction,
                  api_correction, gw, QMul(gw, temp_correction))

ApplyCorrections(gross_volume, water_cut_factor, temp_correction, api_correction) ==
  WaterCorrected(gross_volume, water_cut_factor, temp_correction,
                 api_correction, QMul(gross_volume, water_cut_factor))

calculate_net_volume(gross_volume, bsw_percent, temperature_degf, observed_api, terminal_api) ==
  ApplyCorrections(gross_volume,
                   calculate_water_cut_factor(bsw_percent),
                   temp_calculate_correction(temperature_degf, observed_api),
                   api_calculate_correction(observed_api, terminal_api))

ErrGross == "Gross volume must be greater than 0"
ErrBsw == "BS&W percentage must be between 0 and 99.99"
ErrTemp == "Temperature must be between -50F and 200F"
ErrApi == "API Gravity must be between 10 and 45 degrees"

Validation(errors) == [is_valid |-> Len(errors) = 0, errors |-> errors]

\* validate_inputs that stops at the first constraint violated
validate_inputs_first(gross_volume, bsw_percent, temperature_degf, api_gravity) ==
  Validation(
    IF QLe(gross_volume, QInt(0)) THEN <<ErrGross>>
    ELSE IF ~(QLe(QInt(0), bsw_percent) /\ QLt(bsw_percent, QInt(100)))
    THEN <<ErrBsw>>
    ELSE IF ~validate_temperature(temperature_degf) THEN <<ErrTemp>>
    ELSE IF ~validate_api_gravity(api_gravity) THEN <<ErrApi>>
    ELSE << >>)

validate_inputs(gross_volume, bsw_percent, temperature_degf, api_gravity) ==
  Validation(
    (IF QLe(gross_volume, QInt(0)) THEN <<ErrGross>> ELSE << >>)
    \o (IF ~(QLe(QInt(0), bsw_percent) /\ QLt(bsw_percent, QInt(100)))
        THEN <<ErrBsw>> ELSE << >>)
    \o (IF ~validate_temperature(temperature_degf)
        THEN <<ErrTemp>> ELSE << >>)
    \o (IF ~validate_api_gravity(api_gravity)
        THEN <<ErrApi>> ELSE << >>))

(***************************************************************************)
(* ShrinkageCalculator                                                     *)
(***************************************************************************)
\* calculate_shrinkage_factor with the difference taken the other way round
calculate_gain_factor(total_net, terminal) ==
  IF QIsZero(total_net) THEN QInt(0)
  ELSE QRound(QMul(QDiv(QSub(terminal, total_net), total_net), QInt(100)), 2)

calculate_shrinkage_factor(total_net, terminal) ==
  IF QIsZero(total_net) THEN QInt(0)
  ELSE QRound(QMul(QDiv(QSub(total_net, terminal), total_net), QInt(100)), 2)

calculate_volume_loss(total_net, terminal) ==
  QRound(QSub(total_net, terminal), 2)

get_shrinkage_analysis(total_gross, total_net, terminal) ==
  LET efficiency_rate ==
        IF QLt(QInt(0), total_gross)
        THEN QMul(QDiv(terminal, total_gross), QInt(100))
        ELSE QInt(0)
  IN  [shrinkage_factor |-> calculate_shrinkage_factor(total_net, terminal),
       volume_loss |-> calculate_volume_loss(total_net, terminal),
       total_gross_volume |-> QRound(total_gross, 2),
       total_net_volume |-> QRound(total_net, 2),
       terminal_volume |-> QRound(terminal, 2),
       total_corrections |-> QRound(QSub(total_gross, total_net), 2),
       terminal_variance |-> QRound(QSub(total_net, terminal), 2),
       efficiency_rate |-> QRound(efficiency_rate, 2)]

(***************************************************************************)
(* AllocationCalculator.aggregate_by_partner                               *)
(***************************************************************************)
\* position of the partner's key in the insertion-ordered dictionary
\* partner_aggregates, 0 if it is not in it
RECURSIVE IndexOfPartner(_, _, _)
IndexOfPartner(aggs, partner, i) ==
  IF i > Len(aggs) THEN 0
  ELSE IF aggs[i].partner = partner THEN i
  ELSE IndexOfPartner(aggs, partner, i + 1)

NewAggregate(partner) ==
  [partner |-> partner,
   total_gross_volume |-> QInt(0),
   weighted_bsw_sum |-> QInt(0),
   weighted_temp_sum |-> QInt(0),
   weighted_api_sum |-> QInt(0),
   entry_count |-> 0]

\* Accumulate with sums that are not weighted by the gross volume
AccumulateUnweighted(agg, entry) ==
  LET gross_volume == Get(entry.gross_volume_bbl, QInt(0))
      bsw == Get(entry.bsw_percent, QInt(0))
      temp == Get(entry.temperature_degF, QInt(60))
      api == Get(entry.api_gravity, QInt(35))
  IN  [agg EXCEPT
         !.total_gross_volume = QAdd(@, gross_volume),
         !.weighted_bsw_sum = QAdd(@, bsw),
         !.weighted_temp_sum = QAdd(@, temp),
         !.weighted_api_sum = QAdd(@, api),
         !.entry_count = @ + 1]

\* one round of the loop over production_entries (lines 54-75)
Accumulate(agg, entry) ==
  LET gross_volume == Get(entry.gross_volume_bbl, QInt(0))
      bsw == Get(entry.bsw_percent, QInt(0))
      temp == Get(entry.temperature_degF, QInt(60))
      api == Get(entry.api_gravity, QInt(35))
  IN  [agg EXCEPT
         !.total_gross_volume = QAdd(@, gross_volume),
         !.weighted_bsw_sum = QAdd(@, QMul(bsw, gross_volume)),
         !.weighted_temp_sum = QAdd(@, QMul(temp, gross_volume)),
         !.weighted_api_sum = QAdd(@, QMul(api, gross_volume)),
         !.entry_count = @ + 1]

\* partner_aggregates after the first k entries
RECURSIVE partner_aggregates(_, _)
partner_aggregates(entries, k) ==
  IF k = 0 THEN << >>
  ELSE LET prev == partner_aggregates(entries, k - 1)
           partner == entries[k].partner
           idx == IndexOfPartner(prev, partner, 1)
       IN  IF idx = 0
           THEN Append(prev, Accumulate(NewAggregate(partner), entries[k]))
           ELSE [prev EXCEPT ![idx] = Accumulate(@, entries[k])]

\* the loop over partner_aggregates.items() (lines 78-88)
RECURSIVE WeightedAverages(_, _)
WeightedAverages(aggs, i) ==
  IF i > Len(aggs) THEN << >>
  ELSE LET agg == aggs[i]
           total_volume == agg.total_gross_volume
       IN  (IF QLt(QInt(0), total_volume)
            THEN <<[partner |-> agg.partner,
                    gross_volume_bbl |-> total_volume,
                    bsw_percent |-> QDiv(agg.weighted_bsw_sum, total_volume),
                    temperature_degF |->
                      QDiv(agg.weighted_temp_sum, total_volume),
                    api_gravity |-> QDiv(agg.weighted_api_sum, total_volume)]>>
            ELSE << >>)
           \o WeightedAverages(aggs, i + 1)

aggregate_by_partner(entries) ==
  WeightedAverages(partner_aggregates(entries, Len(entries)), 1)

(***************************************************************************)
(* AllocationCalculator.calculate, step by step                            *)
(***************************************************************************)
MAX_PERCENTAGE == QDec(9999999, 5)

ErrNoEntries == "No production entries provided for allocation"
ErrTerminalVolume == "Terminal volume must be greater than 0"
ErrTerminalApi == "Terminal API gravity must be greater than 0"
ErrInvalidInputs == "Invalid inputs for partner"

ValueError(message, partner, errors) ==
  [message |-> message, partner |-> partner, errors |-> errors]

\* InputError with the terminal API checked before the terminal volume
InputErrorApiFirst(entries, receipt) ==
  IF Len(entries) = 0 THEN ErrNoEntries
  ELSE IF QLe(Get(receipt.api_gravity, QInt(0)), QInt(0))
  THEN ErrTerminalApi
  ELSE IF QLe(Get(receipt.terminal_volume_bbl, QInt(0)), QInt(0))
  THEN ErrTerminalVolume
  ELSE ""

\* lines 132-142: the first check that fails, "" if none does
InputError(entries, receipt) ==
  IF Len(entries) = 0 THEN ErrNoEntries
  ELSE IF QLe(Get(receipt.terminal_volume_bbl, QInt(0)), QInt(0))
  THEN ErrTerminalVolume
  ELSE IF QLe(Get(receipt.api_gravity, QInt(0)), QInt(0))
  THEN ErrTerminalApi
  ELSE ""

\* line 146: len(set(entry.get('partner') for entry in production_entries))
unique_partners(entries) ==
  Cardinality({entries[i].partner : i \in 1..Len(entries)})

\* lines 144-153
AggregatedIfNeeded(entries) ==
  IF unique_partners(entries) < Len(entries)
  THEN aggregate_by_partner(entries)
  ELSE entries

\* lines 192-202
NetVolumeResult(partner, gross_volume, net_result) ==
  [partner |-> partner,
   gross_volume |-> gross_volume,
   net_volume |-> net_result.net_volume,
   water_cut_factor |-> net_result.water_cut_factor,
   temp_correction |-> net_result.temp_correction,
   api_correction |-> net_result.api_correction,
   bsw_deduction |-> net_result.bsw_deduction,
   temperature_adjustment |-> net_result.temperature_adjustment,
   api_adjustment |-> net_result.api_adjustment]

\* lines 219-235: one element of raw_allocations
RawAllocation(r, total_net, terminal) ==
  [partner |-> r.partner,
   gross_volume |-> r.gross_volume,
   net_volume |-> r.net_volume,
   raw_percentage |->
     IF QLt(QInt(0), total_net)
     THEN QMul(QDiv(r.net_volume, total_net), QInt(100))
     ELSE QInt(0),
   raw_allocated |->
     IF QLt(QInt(0), total_net)
     THEN QMul(terminal, QDiv(r.net_volume, total_net))
     ELSE QInt(0),
   water_cut_factor |-> r.water_cut_factor,
   temp_correction |-> r.temp_correction,
   api_correction |-> r.api_correction,
   bsw_deduction |-> r.bsw_deduction,
   temperature_adjustment |-> r.temperature_adjustment,
   api_adjustment |-> r.api_adjustment,
   capped |-> FALSE,
   final_percentage |-> Missing,
   final_allocated |-> Missing]

\* line 244
\* ExceedsCap with the cap written ten times too small
ExceedsTenthOfCap(alloc) ==
  QLt(QDiv(MAX_PERCENTAGE, QInt(10)), alloc.raw_percentage)

ExceedsCap(alloc) == QLt(MAX_PERCENTAGE, alloc.raw_percentage)

\* lines 245-252
Capped(alloc, terminal) ==
  LET capped_percentage == MAX_PERCENTAGE
      capped_allocation == QMul(terminal, QDiv(capped_percentage, QInt(100)))
  IN  [alloc EXCEPT !.capped = TRUE,
                    !.final_percentage = capped_percentage,
                    !.final_allocated = capped_allocation]

\* lines 243-255: the capped partners, in the order of raw_allocations
RECURSIVE CappedPartners(_, _, _)
CappedPartners(raw, terminal, i) ==
  IF i > Len(raw) THEN << >>
  ELSE (IF ExceedsCap(raw[i]) THEN <<Capped(raw[i], terminal)>> ELSE << >>)
       \o CappedPartners(raw, terminal, i + 1)

\* lines 243-255: the other partners, in the order of raw_allocations
RECURSIVE UncappedPartners(_, _)
UncappedPartners(raw, i) ==
  IF i > Len(raw) THEN << >>
  ELSE (IF ExceedsCap(raw[i]) THEN << >> ELSE <<raw[i]>>)
       \o UncappedPartners(raw, i + 1)

\* Python's sum() of one key over a list of dictionaries
RECURSIVE SumField(_, _, _)
SumField(list, key, i) ==
  IF i > Len(list) THEN QInt(0)
  ELSE QAdd(list[i][key], SumField(list, key, i + 1))

\* lines 266-267: the share final_allocated and its percentage of the terminal
\* volume
Shared(alloc, final_allocated, terminal) ==
  [alloc EXCEPT
     !.final_allocated = final_allocated,
     !.final_percentage = QMul(QDiv(final_allocated, terminal), QInt(100))]

\* Redistributed with the whole terminal volume shared, not what is left of it
RedistributedFromTerminal(alloc, remaining_volume, total_uncapped_net_volume, terminal) ==
  IF QLt(QInt(0), total_uncapped_net_volume)
  THEN Shared(alloc,
              QMul(terminal,
                   QDiv(alloc.net_volume, total_uncapped_net_volume)),
              terminal)
  ELSE [alloc EXCEPT !.final_allocated = QInt(0),
                     !.final_percentage = QInt(0)]

\* lines 257-270: the uncapped partners share what the capped ones left
Redistributed(alloc, remaining_volume, total_uncapped_net_volume, terminal) ==
  IF QLt(QInt(0), total_uncapped_net_volume)
  THEN Shared(alloc,
              QMul(remaining_volume,
                   QDiv(alloc.net_volume, total_uncapped_net_volume)),
              terminal)
  ELSE [alloc EXCEPT !.final_allocated = QInt(0),
                     !.final_percentage = QInt(0)]

\* lines 276-289: one element of allocation_results
AllocationRecord(alloc) ==
  [partner |-> alloc.partner,
   gross_volume |-> alloc.gross_volume,
   net_volume |-> alloc.net_volume,
   allocated_volume |-> alloc.final_allocated,
   percentage |-> alloc.final_percentage,
   water_cut_factor |-> alloc.water_cut_factor,
   temp_correction |-> alloc.temp_correction,
   api_correction |-> alloc.api_correction,
   bsw_deduction |-> alloc.bsw_deduction,
   temperature_adjustment |-> alloc.temperature_adjustment,
   api_adjustment |-> alloc.api_adjustment,
   volume_loss |-> Missing]

\* lines 297-298: max(range(len(results)), key=allocated_volume), the first
\* index that holds the largest allocated volume
RECURSIVE LargestFrom(_, _, _)
LargestFrom(results, best, i) ==
  IF i > Len(results) THEN best
  ELSE IF QLt(results[best].allocated_volume, results[i].allocated_volume)
  THEN LargestFrom(results, i, i + 1)
  ELSE LargestFrom(results, best, i + 1)

largest_idx(results) == LargestFrom(results, 1, 2)

\* lines 291-299
\* Adjusted with the difference taken from the largest allocation
AdjustedAway(results, rounding_difference) ==
  IF ~QIsZero(rounding_difference) /\ Len(results) > 0
  THEN [results EXCEPT ![largest_idx(results)].allocated_volume =
                         QSub(@, rounding_difference)]
  ELSE results

Adjusted(results, rounding_difference) ==
  IF ~QIsZero(rounding_difference) /\ Len(results) > 0
  THEN [results EXCEPT ![largest_idx(results)].allocated_volume =
                         QAdd(@, rounding_difference)]
  ELSE results

FinalAdjustment(results, terminal) ==
  Adjusted(results, QSub(terminal, SumField(results, "allocated_volume", 1)))

\* lines 302-310
\* RoundedTo with the percentage of the second pass kept, not recomputed
RoundedKeepingPercentage(alloc, terminal, allocated_volume) ==
  [alloc EXCEPT
     !.allocated_volume = allocated_volume,
     !.percentage = QRound(alloc.percentage, 2),
     !.volume_loss = QRound(QSub(alloc.gross_volume, allocated_volume), 2),
     !.gross_volume = QRound(alloc.gross_volume, 2),
     !.net_volume = QRound(alloc.net_volume, 2),
     !.bsw_deduction = QRound(alloc.bsw_deduction, 2),
     !.temperature_adjustment = QRound(alloc.temperature_adjustment, 2),
     !.api_adjustment = QRound(alloc.api_adjustment, 2)]

RoundedTo(alloc, terminal, allocated_volume) ==
  [alloc EXCEPT
     !.allocated_volume = allocated_volume,
     !.percentage =
       QRound(QMul(QDiv(allocated_volume, terminal), QInt(100)), 2),
     !.volume_loss = QRound(QSub(alloc.gross_volume, allocated_volume), 2),
     !.gross_volume = QRound(alloc.gross_volume, 2),
     !.net_volume = QRound(alloc.net_volume, 2),
     !.bsw_deduction = QRound(alloc.bsw_deduction, 2),
     !.temperature_adjustment = QRound(alloc.temperature_adjustment, 2),
     !.api_adjustment = QRound(alloc.api_adjustment, 2)]

Rounded(alloc, terminal) ==
  RoundedTo(alloc, terminal, QRound(alloc.allocated_volume, 2))

(***************************************************************************)
(* The inputs the model draws.  Volumes are written in hundredths of a     *)
(* barrel (gross) and in thousandths (terminal).                           *)
(***************************************************************************)
MaxEntries == 3

Entry(partner, gross_cents, bsw, temp, api) ==
  [partner |-> partner,
   gross_volume_bbl |-> QDec(gross_cents, 2),
   bsw_percent |-> QInt(bsw),
   temperature_degF |-> QInt(temp),
   api_gravity |-> QInt(api)]

EntryPool ==
  { Entry("A", 10000, 5, 60, 33),        \* 100 bbl
    Entry("A", 20000, 10, 160, 25),      \* 200 bbl, hot and heavier
    Entry("B", 10000, 5, 60, 33),
    Entry("C", 10000, 5, 60, 33),
    Entry("B", 0, 0, 60, 33),            \* no volume: fails validate_inputs
    Entry("C", 10000000, 0, 60, 33),     \* 100 000 bbl
    Entry("B", 1, 0, 60, 33),            \* 0.01 bbl, net 0.01
    Entry("B", 1, 60, 60, 33),           \* 0.01 bbl, net rounds to 0
    Entry("C", 1, 60, 60, 33),
    Entry("", 10000, 5, 60, 33) }          \* no partner identifier

Receipt(volume_milli, api) ==
  [terminal_volume_bbl |-> QDec(volume_milli, 3), api_gravity |-> QInt(api)]

ReceiptPool ==
  { Receipt(300012, 33),     \* 300.012 bbl
    Receipt(12, 33),         \* 0.012 bbl
    Receipt(0, 33), Receipt(300012, 0), Receipt(0, 0) }

EntryLists == UNION {[1..n -> EntryPool] : n \in 0..MaxEntries}

(***************************************************************************)
(* State: the arguments of the call in progress, the locals of calculate,  *)
(* and what it returned or raised.                                         *)
(***************************************************************************)
VARIABLES
  pc,                  \* where calculate is
  args,                \* the caller's production_entries and terminal_receipt
  production_entries,  \* the local name, rebound by the aggregation
  net_volume_results,
  total_gross_volume,
  total_net_volume,
  shrinkage_analysis,
  raw_allocations,
  capped_partners,
  uncapped_partners,
  allocation_results,
  result,              \* the dictionary returned, Missing before
  error,               \* the ValueError raised, Missing before
  invocation,          \* the last call of one method of a calculator by itself
  agent,               \* where AccountantAgent.calculate_allocation is
  firestore,           \* what the call in progress has written to Firestore
  current_time,        \* the clock: time.time(), utc_now(), in seconds
  rate_limit_storage,  \* client address -> times of its admitted requests
  handled,             \* the requests passed on to call_next, oldest first
  cache,               \* SimpleCache._cache, in the dictionary's insertion order
  returned             \* the last answer of the middleware, or of SimpleCache.get

vars == <<pc, args, production_entries, net_volume_results, total_gross_volume,
          total_net_volume, shrinkage_analysis, raw_allocations,
          capped_partners, uncapped_partners, allocation_results, result,
          error, invocation, agent, firestore, current_time,
          rate_limit_storage, handled, cache, returned>>

locals == <<production_entries, net_volume_results, total_gross_volume,
            total_net_volume, shrinkage_analysis, raw_allocations,
            capped_partners, uncapped_partners, allocation_results>>

\* the state of the agent, of the rate limiter and of the cache
services == <<agent, firestore, current_time, rate_limit_storage, handled,
              cache, returned>>

\* lines 135-136
terminal_volume == Get(args.terminal_receipt.terminal_volume_bbl, QInt(0))
terminal_api == Get(args.terminal_receipt.api_gravity, QInt(0))

NoLocals ==
  /\ production_entries = << >>
  /\ net_volume_results = << >>
  /\ total_gross_volume = QInt(0)
  /\ total_net_volume = QInt(0)
  /\ shrinkage_analysis = Missing
  /\ raw_allocations = << >>
  /\ capped_partners = << >>
  /\ uncapped_partners = << >>
  /\ allocation_results = << >>

\* no method has been called by itself
NoInvocation ==
  [method |-> "", args |-> << >>, args_after |-> << >>, result |-> Missing]

\* calculate_allocation is not running: no result, no thread of _save_results
NoAllocation == [pc |-> "idle", result |-> Missing, update |-> "", log |-> ""]

\* neither the receipt nor the activity log has been written
NothingWritten == [terminal_receipts |-> Missing, agent_logs |-> Missing]

\* no request has been answered and no get has returned
NothingReturned ==
  [client |-> "", path |-> "", key |-> "", time |-> 0, status_code |-> 0,
   data |-> Missing]

Init ==
  /\ pc = "idle"
  /\ args = [production_entries |-> << >>, terminal_receipt |-> Receipt(0, 0)]
  /\ NoLocals
  /\ result = Missing
  /\ error = Missing
  /\ invocation = NoInvocation
  /\ agent = NoAllocation
  /\ firestore = NothingWritten
  /\ current_time = 0
  /\ rate_limit_storage = [ip \in {} |-> << >>]
  /\ handled = << >>
  /\ cache = << >>
  /\ returned = NothingReturned

\* calculate(production_entries, terminal_receipt) is called
Call(entries, receipt) ==
  /\ pc = "idle"
  /\ pc' = "check"
  /\ args' = [production_entries |-> entries, terminal_receipt |-> receipt]
  /\ production_entries' = entries
  /\ result' = Missing
  /\ error' = Missing
  /\ UNCHANGED <<net_volume_results, total_gross_volume, total_net_volume,
                 shrinkage_analysis, raw_allocations, capped_partners,
                 uncapped_partners, allocation_results>>
  /\ UNCHANGED <<invocation, services>>

\* lines 132-142
CheckInputs ==
  /\ pc = "check"
  /\ LET e == InputError(production_entries, args.terminal_receipt)
     IN  IF e # ""
         THEN /\ pc' = "raised"
              /\ error' = ValueError(e, NoneValue, << >>)
         ELSE /\ pc' = "aggregate"
              /\ error' = error
  /\ UNCHANGED <<args, locals, result>>
  /\ UNCHANGED <<invocation, services>>

\* Aggregate with the aggregated entries written into the caller's list
AggregateInPlace ==
  /\ pc = "aggregate"
  /\ pc' = "net_volume"
  /\ production_entries' = AggregatedIfNeeded(production_entries)
  /\ args' = [args EXCEPT !.production_entries =
                            AggregatedIfNeeded(production_entries)]
  /\ UNCHANGED <<net_volume_results, total_gross_volume,
                 total_net_volume, shrinkage_analysis, raw_allocations,
                 capped_partners, uncapped_partners, allocation_results,
                 result, error>>
  /\ UNCHANGED <<invocation, services>>

\* lines 144-153
Aggregate ==
  /\ pc = "aggregate"
  /\ pc' = "net_volume"
  /\ production_entries' = AggregatedIfNeeded(production_entries)
  /\ UNCHANGED <<args, net_volume_results, total_gross_volume,
                 total_net_volume, shrinkage_analysis, raw_allocations,
                 capped_partners, uncapped_partners, allocation_results,
                 result, error>>
  /\ UNCHANGED <<invocation, services>>

\* lines 174-179: the entry is refused
RaiseInvalidInputs(partner, validation) ==
  /\ pc' = "raised"
  /\ error' = ValueError(ErrInvalidInputs, partner, validation.errors)
  /\ UNCHANGED <<net_volume_results, total_gross_volume, total_net_volume>>

\* lines 189-205: the entry's net volume is recorded and the totals grow
RecordNetVolume(partner, gross_volume, net_result) ==
  /\ net_volume_results' =
       Append(net_volume_results,
              NetVolumeResult(partner, gross_volume, net_result))
  /\ total_gross_volume' = QAdd(total_gross_volume, gross_volume)
  /\ total_net_volume' = QAdd(total_net_volume, net_result.net_volume)
  /\ UNCHANGED <<pc, error>>

\* lines 168-187: the net volume is calculated only for a valid entry
ValidatedNetVolume(partner, gross_volume, bsw_percent, temperature, observed_api, validation) ==
  IF ~validation.is_valid
  THEN RaiseInvalidInputs(partner, validation)
  ELSE RecordNetVolume(partner, gross_volume,
                       calculate_net_volume(gross_volume, bsw_percent,
                                            temperature, observed_api,
                                            terminal_api))

\* lines 168-172
EntryNetVolume(partner, gross_volume, bsw_percent, temperature, observed_api) ==
  ValidatedNetVolume(partner, gross_volume, bsw_percent, temperature,
                     observed_api,
                     validate_inputs(gross_volume, bsw_percent, temperature,
                                     observed_api))

\* lines 160-205: one round of the loop over production_entries
NetVolume ==
  /\ pc = "net_volume"
  /\ Len(net_volume_results) < Len(production_entries)
  /\ LET entry == production_entries[Len(net_volume_results) + 1]
     IN  EntryNetVolume(entry.partner,
                        Get(entry.gross_volume_bbl, QInt(0)),
                        Get(entry.bsw_percent, QInt(0)),
                        Get(entry.temperature_degF, QInt(60)),
                        Get(entry.api_gravity, terminal_api))
  /\ UNCHANGED <<args, production_entries, shrinkage_analysis, raw_allocations,
                 capped_partners, uncapped_partners, allocation_results, result>>
  /\ UNCHANGED <<invocation, services>>

\* lines 207-212
Shrinkage ==
  /\ pc = "net_volume"
  /\ Len(net_volume_results) = Len(production_entries)
  /\ pc' = "first_pass"
  /\ shrinkage_analysis' =
       get_shrinkage_analysis(total_gross_volume, total_net_volume,
                              terminal_volume)
  /\ UNCHANGED <<args, production_entries, net_volume_results,
                 total_gross_volume, total_net_volume, raw_allocations,
                 capped_partners, uncapped_partners, allocation_results,
                 result, error>>
  /\ UNCHANGED <<invocation, services>>

\* lines 217-235
FirstPass ==
  /\ pc = "first_pass"
  /\ pc' = "second_pass"
  /\ raw_allocations' =
       [i \in 1..Len(net_volume_results) |->
          RawAllocation(net_volume_results[i], total_net_volume,
                        terminal_volume)]
  /\ UNCHANGED <<args, production_entries, net_volume_results,
                 total_gross_volume, total_net_volume, shrinkage_analysis,
                 capped_partners, uncapped_partners, allocation_results,
                 result, error>>
  /\ UNCHANGED <<invocation, services>>

\* lines 264-270: the loop over uncapped_partners
RedistributedAll(uncapped, remaining_volume, total_uncapped_net_volume) ==
  [i \in 1..Len(uncapped) |->
     Redistributed(uncapped[i], remaining_volume, total_uncapped_net_volume,
                   terminal_volume)]

\* lines 241-261
CapAndRedistribute(capped, uncapped) ==
  /\ capped_partners' = capped
  /\ uncapped_partners' =
       RedistributedAll(uncapped,
                        QSub(terminal_volume,
                             SumField(capped, "final_allocated", 1)),
                        SumField(uncapped, "net_volume", 1))

\* lines 237-270
SecondPass ==
  /\ pc = "second_pass"
  /\ pc' = "combine"
  /\ CapAndRedistribute(CappedPartners(raw_allocations, terminal_volume, 1),
                        UncappedPartners(raw_allocations, 1))
  /\ UNCHANGED <<args, production_entries, net_volume_results,
                 total_gross_volume, total_net_volume, shrinkage_analysis,
                 raw_allocations, allocation_results, result, error>>
  /\ UNCHANGED <<invocation, services>>

\* lines 272-289
\* Combine with the uncapped partners put before the capped ones
CombineUncappedFirst ==
  /\ pc = "combine"
  /\ pc' = "adjust"
  /\ LET all_allocations == uncapped_partners \o capped_partners
     IN  allocation_results' =
           [i \in 1..Len(all_allocations) |->
              AllocationRecord(all_allocations[i])]
  /\ UNCHANGED <<args, production_entries, net_volume_results,
                 total_gross_volume, total_net_volume, shrinkage_analysis,
                 raw_allocations, capped_partners, uncapped_partners,
                 result, error>>
  /\ UNCHANGED <<invocation, services>>

Combine ==
  /\ pc = "combine"
  /\ pc' = "adjust"
  /\ LET all_allocations == capped_partners \o uncapped_partners
     IN  allocation_results' =
           [i \in 1..Len(all_allocations) |->
              AllocationRecord(all_allocations[i])]
  /\ UNCHANGED <<args, production_entries, net_volume_results,
                 total_gross_volume, total_net_volume, shrinkage_analysis,
                 raw_allocations, capped_partners, uncapped_partners,
                 result, error>>
  /\ UNCHANGED <<invocation, services>>

\* lines 291-299
Adjust ==
  /\ pc = "adjust"
  /\ pc' = "round"
  /\ allocation_results' = FinalAdjustment(allocation_results, terminal_volume)
  /\ UNCHANGED <<args, production_entries, net_volume_results,
                 total_gross_volume, total_net_volume, shrinkage_analysis,
                 raw_allocations, capped_partners, uncapped_partners,
                 result, error>>
  /\ UNCHANGED <<invocation, services>>

\* lines 301-310
RoundAll ==
  /\ pc = "round"
  /\ pc' = "finish"
  /\ allocation_results' =
       [i \in 1..Len(allocation_results) |->
          Rounded(allocation_results[i], terminal_volume)]
  /\ UNCHANGED <<args, production_entries, net_volume_results,
                 total_gross_volume, total_net_volume, shrinkage_analysis,
                 raw_allocations, capped_partners, uncapped_partners,
                 result, error>>
  /\ UNCHANGED <<invocation, services>>

\* lines 344-353: the dictionary returned
ResultOf(results, total_gross, total_net, shrinkage, terminal, total_allocated) ==
  [allocation_results |-> results,
   total_gross_volume |-> QRound(total_gross, 2),
   total_net_volume |-> QRound(total_net, 2),
   terminal_volume |-> terminal,
   shrinkage_factor |-> shrinkage.shrinkage_factor,
   shrinkage_analysis |-> shrinkage,
   total_allocated |-> QRound(total_allocated, 2),
   allocation_variance |-> QRound(QAbs(QSub(total_allocated, terminal)), 2)]

Summary(total_allocated) ==
  ResultOf(allocation_results, total_gross_volume, total_net_volume,
           shrinkage_analysis, terminal_volume, total_allocated)

\* lines 321-353
Finish ==
  /\ pc = "finish"
  /\ pc' = "returned"
  /\ result' = Summary(SumField(allocation_results, "allocated_volume", 1))
  /\ UNCHANGED <<args, locals, error>>
  /\ UNCHANGED <<invocation, services>>

\* the caller has taken what calculate returned or raised; nothing of the
\* call is kept (the calculator holds no state between calls)
Reset ==
  /\ pc \in {"returned", "raised"}
  /\ pc' = "idle"
  /\ args' = [production_entries |-> << >>, terminal_receipt |-> Receipt(0, 0)]
  /\ production_entries' = << >>
  /\ net_volume_results' = << >>
  /\ total_gross_volume' = QInt(0)
  /\ total_net_volume' = QInt(0)
  /\ shrinkage_analysis' = Missing
  /\ raw_allocations' = << >>
  /\ capped_partners' = << >>
  /\ uncapped_partners' = << >>
  /\ allocation_results' = << >>
  /\ result' = Missing
  /\ error' = Missing

Return == Reset /\ UNCHANGED <<invocation, services>>

Next ==
  \/ \E entries \in EntryLists, receipt \in ReceiptPool : Call(entries, receipt)
  \/ CheckInputs
  \/ Aggregate
  \/ NetVolume
  \/ Shrinkage
  \/ FirstPass
  \/ SecondPass
  \/ Combine
  \/ Adjust
  \/ RoundAll
  \/ Finish
  \/ Return

Spec == Init /\ [][Next]_vars

(***************************************************************************)
(* AllocationCalculator.calculate as a function of its two arguments: what *)
(* one call returns or raises when nothing but the arguments is read.      *)
(***************************************************************************)
\* lines 160-205: one round of the loop; it stops at the first entry that
\* raises
NextNetVolume(prev, entry, tapi) ==
  IF prev.raised THEN prev
  ELSE LET partner == entry.partner
           gross_volume == Get(entry.gross_volume_bbl, QInt(0))
           bsw_percent == Get(entry.bsw_percent, QInt(0))
           temperature == Get(entry.temperature_degF, QInt(60))
           observed_api == Get(entry.api_gravity, tapi)
           validation ==
             validate_inputs(gross_volume, bsw_percent, temperature,
                             observed_api)
           net_result ==
             calculate_net_volume(gross_volume, bsw_percent, temperature,
                                  observed_api, tapi)
       IN  IF ~validation.is_valid
           THEN [prev EXCEPT !.raised = TRUE,
                             !.error = ValueError(ErrInvalidInputs, partner,
                                                  validation.errors)]
           ELSE [raised |-> FALSE,
                 error |-> Missing,
                 results |->
                   Append(prev.results,
                          NetVolumeResult(partner, gross_volume, net_result)),
                 total_gross |-> QAdd(prev.total_gross, gross_volume),
                 total_net |-> QAdd(prev.total_net, net_result.net_volume)]

\* lines 155-205: the loop over the first k entries
RECURSIVE NetVolumes(_, _, _)
NetVolumes(entries, tapi, k) ==
  IF k = 0
  THEN [raised |-> FALSE, error |-> Missing, results |-> << >>,
        total_gross |-> QInt(0), total_net |-> QInt(0)]
  ELSE NextNetVolume(NetVolumes(entries, tapi, k - 1), entries[k], tapi)

\* lines 207-353: what follows the loop
Allocated(nv, terminal) ==
  IF nv.raised THEN [raised |-> TRUE, value |-> nv.error]
  ELSE LET shrinkage ==
             get_shrinkage_analysis(nv.total_gross, nv.total_net, terminal)
           raw == [i \in 1..Len(nv.results) |->
                     RawAllocation(nv.results[i], nv.total_net, terminal)]
           capped == CappedPartners(raw, terminal, 1)
           uncapped == UncappedPartners(raw, 1)
           remaining_volume ==
             QSub(terminal, SumField(capped, "final_allocated", 1))
           total_uncapped_net_volume == SumField(uncapped, "net_volume", 1)
           all_allocations ==
             capped \o [i \in 1..Len(uncapped) |->
                          Redistributed(uncapped[i], remaining_volume,
                                        total_uncapped_net_volume, terminal)]
           adjusted ==
             FinalAdjustment([i \in 1..Len(all_allocations) |->
                                AllocationRecord(all_allocations[i])],
                             terminal)
           results == [i \in 1..Len(adjusted) |->
                         Rounded(adjusted[i], terminal)]
       IN  [raised |-> FALSE,
            value |-> ResultOf(results, nv.total_gross, nv.total_net,
                               shrinkage, terminal,
                               SumField(results, "allocated_volume", 1))]

\* lines 132-353
calculate(entries, receipt) ==
  IF InputError(entries, receipt) # ""
  THEN [raised |-> TRUE,
        value |-> ValueError(InputError(entries, receipt), NoneValue, << >>)]
  ELSE Allocated(NetVolumes(AggregatedIfNeeded(entries),
                            Get(receipt.api_gravity, QInt(0)),
                            Len(AggregatedIfNeeded(entries))),
                 Get(receipt.terminal_volume_bbl, QInt(0)))

(***************************************************************************)
(* AllocationCalculator.validate_allocations                               *)
(***************************************************************************)
ErrNoAllocations == "No allocations provided"
ErrPercentages == "Percentages sum outside valid range (99%-101%)"
ErrNegative == "Some volumes are negative"
ErrNetExceedsGross == "Net volume exceeds gross volume for some entries"

\* lines 372-377
all_non_negative(allocations) ==
  \A i \in 1..Len(allocations) :
     /\ QLe(QInt(0), Get(allocations[i].allocated_volume, QInt(0)))
     /\ QLe(QInt(0), Get(allocations[i].gross_volume, QInt(0)))
     /\ QLe(QInt(0), Get(allocations[i].net_volume, QInt(0)))

\* line 380: sum(a.get('percentage', 0) for a in allocations)
RECURSIVE SumPercentage(_, _)
SumPercentage(allocations, i) ==
  IF i > Len(allocations) THEN QInt(0)
  ELSE QAdd(Get(allocations[i].percentage, QInt(0)),
            SumPercentage(allocations, i + 1))

\* lines 384-387
net_less_than_gross(allocations) ==
  \A i \in 1..Len(allocations) :
     QLe(Get(allocations[i].net_volume, QInt(0)),
         Get(allocations[i].gross_volume, QInt(0)))

\* AllocationErrors with the first failed check only
FirstAllocationError(percentage_ok, non_negative, net_ok) ==
  IF ~percentage_ok THEN <<ErrPercentages>>
  ELSE IF ~non_negative THEN <<ErrNegative>>
  ELSE IF ~net_ok THEN <<ErrNetExceedsGross>>
  ELSE << >>

\* lines 399-407: the messages joined into result['error']; the total that
\* the first message quotes is left out of it
AllocationErrors(percentage_ok, non_negative, net_ok) ==
  (IF ~percentage_ok THEN <<ErrPercentages>> ELSE << >>)
  \o (IF ~non_negative THEN <<ErrNegative>> ELSE << >>)
  \o (IF ~net_ok THEN <<ErrNetExceedsGross>> ELSE << >>)

\* lines 389-409: the dictionary returned, with the key 'error' only if
\* the allocations are not valid
AllocationsResult(non_negative, total, percentage_ok, net_ok) ==
  IF percentage_ok /\ non_negative /\ net_ok
  THEN [is_valid |-> TRUE,
        total_percentage |-> QRound(total, 2),
        percentage_valid |-> percentage_ok,
        all_non_negative |-> non_negative,
        net_less_than_gross |-> net_ok]
  ELSE [is_valid |-> FALSE,
        total_percentage |-> QRound(total, 2),
        percentage_valid |-> percentage_ok,
        all_non_negative |-> non_negative,
        net_less_than_gross |-> net_ok,
        error |-> AllocationErrors(percentage_ok, non_negative, net_ok)]

\* line 381
CheckedPercentage(non_negative, total, net_ok) ==
  AllocationsResult(non_negative, total,
                    QLe(QInt(99), total) /\ QLe(total, QInt(101)), net_ok)

validate_allocations(allocations) ==
  IF Len(allocations) = 0
  THEN [is_valid |-> FALSE, error |-> <<ErrNoAllocations>>]
  ELSE CheckedPercentage(all_non_negative(allocations),
                         SumPercentage(allocations, 1),
                         net_less_than_gross(allocations))


(***************************************************************************)
(* The methods of the calculators called by themselves, on inputs that     *)
(* calculate would refuse or never build as well.                          *)
(***************************************************************************)
MaxAllocations == 2

GrossVolumes == {QInt(-1), QInt(0), QDec(1, 2), QInt(100), QDec(123456, 2)}
BswPercents == {QInt(-1), QInt(0), QInt(5), QDec(3333, 2), QDec(9999, 2), QInt(100), QInt(150)}
Temperatures == {QInt(-1000), QInt(-51), QInt(-50), QInt(0), QInt(60), QInt(200), QInt(201), QInt(1000)}
ApiGravities == {QInt(0), QInt(9), QInt(10), QInt(25), QInt(33), QInt(45), QInt(46), QInt(1000)}
TotalNetVolumes == {QInt(0), QInt(100), QInt(100000)}
TerminalVolumes == {QDec(12, 3), QDec(9999, 2), QInt(100), QDec(10001, 2), QDec(10000001, 2), QDec(300012, 3)}

\* a record as validate_allocations reads it
Allocation(allocated_cents, gross_cents, net_cents, percentage) ==
  [allocated_volume |-> QDec(allocated_cents, 2),
   gross_volume |-> QDec(gross_cents, 2),
   net_volume |-> QDec(net_cents, 2),
   percentage |-> percentage]

AllocationPool ==
  { Allocation(5000, 10000, 9500, QInt(50)),
    Allocation(5000, 10000, 9500, QDec(4900, 2)),
    Allocation(5000, 10000, 9500, QDec(5101, 2)),
    Allocation(-1, 10000, 9500, QInt(50)),
    Allocation(5000, 10000, 10001, QInt(50)),
    Allocation(9950, 10000, 9500, QDec(9950, 2)),
    Allocation(0, -1, -2, Missing) }

AllocationLists == UNION {[1..n -> AllocationPool] : n \in 0..MaxAllocations}

\* the method is called on a and returns r; none of the methods writes to
\* its arguments
Invoke(method, a, r) ==
  /\ invocation = NoInvocation
  /\ invocation' = [method |-> method, args |-> a, args_after |-> a,
                    result |-> r]
  /\ UNCHANGED <<pc, args, locals, result, error, services>>

CallCalculateNetVolume(gross_volume, bsw_percent, temperature_degf, observed_api, terminal) ==
  Invoke("calculate_net_volume",
         <<gross_volume, bsw_percent, temperature_degf, observed_api, terminal>>,
         calculate_net_volume(gross_volume, bsw_percent, temperature_degf,
                              observed_api, terminal))

CallValidateInputs(gross_volume, bsw_percent, temperature_degf, api_gravity) ==
  Invoke("validate_inputs",
         <<gross_volume, bsw_percent, temperature_degf, api_gravity>>,
         validate_inputs(gross_volume, bsw_percent, temperature_degf,
                         api_gravity))

CallShrinkageFactor(total_net, terminal) ==
  Invoke("calculate_shrinkage_factor", <<total_net, terminal>>,
         calculate_shrinkage_factor(total_net, terminal))

CallValidateAllocations(allocations) ==
  Invoke("validate_allocations", <<allocations>>,
         validate_allocations(allocations))

CallWaterCutFactor(bsw_percent) ==
  Invoke("calculate_water_cut_factor", <<bsw_percent>>,
         calculate_water_cut_factor(bsw_percent))

CallTemperatureCorrection(observed_temp, api_gravity) ==
  Invoke("TemperatureCorrector.calculate_correction",
         <<observed_temp, api_gravity>>,
         temp_calculate_correction(observed_temp, api_gravity))

CallApiCorrection(observed_api, terminal) ==
  Invoke("APICorrector.calculate_correction", <<observed_api, terminal>>,
         api_calculate_correction(observed_api, terminal))

\* the caller has taken what the method returned
Forget ==
  /\ invocation # NoInvocation
  /\ invocation' = NoInvocation
  /\ UNCHANGED <<pc, args, locals, result, error, services>>

MethodNext ==
  \/ \E g \in {QDec(1, 2), QInt(100), QDec(123456, 2)},
        b \in {QInt(0), QInt(5), QDec(3333, 2)},
        t \in {QInt(-50), QInt(0), QInt(60), QInt(200)},
        a \in {QInt(10), QInt(33), QInt(45)},
        ta \in {QInt(25), QInt(33)} :
        CallCalculateNetVolume(g, b, t, a, ta)
  \/ \E g \in GrossVolumes, b \in BswPercents, t \in Temperatures,
        a \in ApiGravities :
        CallValidateInputs(g, b, t, a)
  \/ \E n \in TotalNetVolumes, t \in TerminalVolumes : CallShrinkageFactor(n, t)
  \/ \E allocations \in AllocationLists : CallValidateAllocations(allocations)
  \/ \E b \in BswPercents : CallWaterCutFactor(b)
  \/ \E t \in Temperatures, a \in ApiGravities :
        CallTemperatureCorrection(t, a)
  \/ \E a \in ApiGravities, ta \in ApiGravities \ {QInt(0)} :
        CallApiCorrection(a, ta)
  \/ Forget

MethodSpec == Init /\ [][MethodNext]_vars

(***************************************************************************)
(* AccountantAgent.calculate_allocation: the call of calculate, the        *)
(* validation of what it returned, and the two writes of _save_results,    *)
(* each in a thread of its own.  While the agent goes on, pc and result    *)
(* keep what calculate returned (the agent's allocation_result).           *)
(***************************************************************************)
\* agent.py lines 121-127
AllocationResult(allocation_result, validation_result) ==
  [allocations |-> allocation_result.allocation_results,
   total_allocated |-> allocation_result.total_allocated,
   validation_status |-> validation_result.is_valid]

\* update_data with the status written whatever the validation said
update_data_completed(r) ==
  [allocations |-> r.allocations,
   total_allocated |-> r.total_allocated,
   allocation_status |-> "completed"]

\* agent.py lines 187-192
update_data(r) ==
  [allocations |-> r.allocations,
   total_allocated |-> r.total_allocated,
   allocation_status |-> IF r.validation_status THEN "completed" ELSE "failed"]

\* agent.py lines 91-106: the entries are not empty and calculate is called
CallCalculate(entries, receipt) ==
  /\ agent = NoAllocation
  /\ entries # << >>
  /\ Call(entries, receipt)

\* agent.py lines 93-94 and 147-149: no entries, calculate is not called
RaiseNoEntries ==
  /\ agent = NoAllocation
  /\ pc = "idle"
  /\ agent' = [agent EXCEPT !.pc = "raised"]
  /\ UNCHANGED <<pc, args, locals, result, error, invocation, firestore,
                 current_time, rate_limit_storage, handled, cache, returned>>

\* CreateResult with the results saved in a finally clause, whether
\* calculate returned or raised
CreateResultAndSaveAlways ==
  /\ agent = NoAllocation
  /\ pc \in {"returned", "raised"}
  /\ agent' =
       IF pc = "raised"
       THEN [pc |-> "raised", result |-> Missing,
             update |-> "pending", log |-> "pending"]
       ELSE [pc |-> "saving",
             result |->
               AllocationResult(result,
                                validate_allocations(result.allocation_results)),
             update |-> "pending", log |-> "pending"]
  /\ UNCHANGED <<pc, args, locals, result, error, invocation, firestore,
                 current_time, rate_limit_storage, handled, cache, returned>>

\* agent.py lines 108-131 when calculate has returned: the result is built
\* and _save_results starts its two threads (lines 171-174); lines 147-149
\* when calculate has raised
CreateResult ==
  /\ agent = NoAllocation
  /\ pc \in {"returned", "raised"}
  /\ agent' =
       IF pc = "raised"
       THEN [agent EXCEPT !.pc = "raised"]
       ELSE [pc |-> "saving",
             result |->
               AllocationResult(result,
                                validate_allocations(result.allocation_results)),
             update |-> "pending", log |-> "pending"]
  /\ UNCHANGED <<pc, args, locals, result, error, invocation, firestore,
                 current_time, rate_limit_storage, handled, cache, returned>>

\* agent.py lines 179-198, in its thread: update_document writes the
\* receipt, or raises what Firestore raised (firestore_client.py lines 44-52)
update_firestore(ok) ==
  /\ agent.update = "pending"
  /\ agent' = [agent EXCEPT !.update = IF ok THEN "done" ELSE "failed"]
  /\ firestore' =
       IF ok
       THEN [firestore EXCEPT !.terminal_receipts = update_data(agent.result)]
       ELSE firestore
  /\ UNCHANGED <<pc, args, locals, result, error, invocation, current_time,
                 rate_limit_storage, handled, cache, returned>>

\* agent.py lines 200-223, in its thread: log_agent_activity writes the log,
\* or swallows what Firestore raised (firestore_client.py lines 116-122)
log_activity(ok) ==
  /\ agent.log = "pending"
  /\ agent' = [agent EXCEPT !.log = "done"]
  /\ firestore' =
       IF ok
       THEN [firestore EXCEPT
               !.agent_logs =
                  [status |-> "completed",
                   allocations_count |-> Len(agent.result.allocations),
                   total_allocated |-> agent.result.total_allocated,
                   validation_status |-> agent.result.validation_status]]
       ELSE firestore
  /\ UNCHANGED <<pc, args, locals, result, error, invocation, current_time,
                 rate_limit_storage, handled, cache, returned>>

\* save_results with the exception of a write passed on to the caller
save_results_or_raise ==
  /\ agent.pc = "saving"
  /\ \/ agent.update = "failed"
     \/ agent.update = "done" /\ agent.log = "done"
  /\ agent' = [agent EXCEPT
                 !.pc = IF agent.update = "failed" THEN "raised" ELSE "returned"]
  /\ UNCHANGED <<pc, args, locals, result, error, invocation, firestore,
                 current_time, rate_limit_storage, handled, cache, returned>>

\* agent.py lines 170-177 and 133-145: gather returns when both threads are
\* done, or raises the first exception of a thread, which is logged and
\* dropped; calculate_allocation returns the result
save_results ==
  /\ agent.pc = "saving"
  /\ \/ agent.update = "failed"
     \/ agent.update = "done" /\ agent.log = "done"
  /\ agent' = [agent EXCEPT !.pc = "returned"]
  /\ UNCHANGED <<pc, args, locals, result, error, invocation, firestore,
                 current_time, rate_limit_storage, handled, cache, returned>>

\* the caller has taken what calculate_allocation returned or raised and
\* the threads are over; the writes of the next call are told from these
Respond ==
  /\ agent.pc \in {"returned", "raised"}
  /\ agent.log # "pending"
  /\ agent.update # "pending"
  /\ agent' = NoAllocation
  /\ firestore' = NothingWritten
  /\ IF pc = "idle"
     THEN UNCHANGED <<pc, args, locals, result, error>>
     ELSE Reset
  /\ UNCHANGED <<invocation, current_time, rate_limit_storage, handled, cache,
                 returned>>

AgentNext ==
  \/ \E entries \in EntryLists, receipt \in ReceiptPool :
       CallCalculate(entries, receipt)
  \/ RaiseNoEntries
  \/ CheckInputs
  \/ Aggregate
  \/ NetVolume
  \/ Shrinkage
  \/ FirstPass
  \/ SecondPass
  \/ Combine
  \/ Adjust
  \/ RoundAll
  \/ Finish
  \/ CreateResult
  \/ \E ok \in BOOLEAN : update_firestore(ok)
  \/ \E ok \in BOOLEAN : log_activity(ok)
  \/ save_results
  \/ Respond

AgentSpec == Init /\ [][AgentNext]_vars

(***************************************************************************)
(* rate_limit_middleware.  The limit and the window are 100 requests and   *)
(* 60 seconds in the source (rate_limiting.py lines 19-20); the model      *)
(* keeps their names and scales them down.  Time goes in whole seconds.    *)
(***************************************************************************)
RATE_LIMIT_REQUESTS == 2
RATE_LIMIT_WINDOW == 3
MaxTime == 4
MaxHandled == 4

\* rate_limiting.py line 23: a defaultdict(list), an address without
\* requests reads as the empty list
Requests(ip) ==
  IF ip \in DOMAIN rate_limit_storage THEN rate_limit_storage[ip] ELSE << >>

\* Recent with the request that is exactly one window old still counted
RecentOrJustExpired(times, now) ==
  SelectSeq(times, LAMBDA req_time : now - req_time <= RATE_LIMIT_WINDOW)

\* rate_limiting.py lines 49-52
Recent(times, now) ==
  SelectSeq(times, LAMBDA req_time : now - req_time < RATE_LIMIT_WINDOW)

\* rate_limiting.py lines 26-76; call_next answers 200
rate_limit_middleware(ip, path) ==
  /\ Len(handled) < MaxHandled
  /\ IF path \in {"/health", "/"}
     THEN /\ handled' = Append(handled, [client |-> ip, path |-> path,
                                         time |-> current_time])
          /\ returned' = [client |-> ip, path |-> path, time |-> current_time,
                          status_code |-> 200]
          /\ UNCHANGED rate_limit_storage
     ELSE IF Len(Recent(Requests(ip), current_time)) >= RATE_LIMIT_REQUESTS
     THEN /\ rate_limit_storage' =
               [c \in DOMAIN rate_limit_storage \cup {ip} |->
                  IF c = ip THEN Recent(Requests(ip), current_time)
                  ELSE rate_limit_storage[c]]
          /\ returned' = [client |-> ip, path |-> path, time |-> current_time,
                          status_code |-> 429]
          /\ UNCHANGED handled
     ELSE /\ rate_limit_storage' =
               [c \in DOMAIN rate_limit_storage \cup {ip} |->
                  IF c = ip
                  THEN Append(Recent(Requests(ip), current_time), current_time)
                  ELSE rate_limit_storage[c]]
          /\ handled' = Append(handled, [client |-> ip, path |-> path,
                                         time |-> current_time])
          /\ returned' = [client |-> ip, path |-> path, time |-> current_time,
                          status_code |-> 200]
  /\ UNCHANGED <<pc, args, locals, result, error, invocation, agent,
                 firestore, current_time, cache>>

\* a second goes by
Tick ==
  /\ current_time < MaxTime
  /\ current_time' = current_time + 1
  /\ UNCHANGED <<pc, args, locals, result, error, invocation, agent,
                 firestore, rate_limit_storage, handled, cache, returned>>

RateLimitNext ==
  \/ \E ip \in {"10.0.0.1", "10.0.0.2"}, path \in {"/health", "/", "/allocate"} :
       rate_limit_middleware(ip, path)
  \/ Tick

RateLimitSpec == Init /\ [][RateLimitNext]_vars

(***************************************************************************)
(* SimpleCache.  The cache is the list of the dictionary's entries in      *)
(* insertion order; max_size is the argument of the constructor.           *)
(***************************************************************************)
max_size == 2

\* simple_cache.py lines 17-26
CacheEntry(key, data, ttl_seconds) ==
  [key |-> key, data |-> data, expires_at |-> current_time + ttl_seconds]

\* simple_cache.py lines 28-30
is_expired(entry) == current_time > entry.expires_at

\* the place of the key in the cache, 0 if it is not there
Place(key) ==
  IF \E i \in 1..Len(cache) : cache[i].key = key
  THEN CHOOSE i \in 1..Len(cache) : cache[i].key = key
  ELSE 0

\* evict_oldest with only the expired entries removed
evict_expired(entries) ==
  SelectSeq(entries, LAMBDA entry : ~is_expired(entry))

\* simple_cache.py lines 87-97
evict_oldest(entries) ==
  LET kept == SelectSeq(entries, LAMBDA entry : ~is_expired(entry))
  IN  IF Len(kept) >= max_size /\ Len(kept) > 0 THEN Tail(kept) ELSE kept

\* simple_cache.py lines 55-71
cache_get(key) ==
  /\ IF Place(key) = 0
     THEN /\ returned' = [key |-> key, time |-> current_time, data |-> Missing]
          /\ UNCHANGED cache
     ELSE IF ~is_expired(cache[Place(key)])
     THEN /\ returned' = [key |-> key, time |-> current_time,
                          data |-> cache[Place(key)].data]
          /\ UNCHANGED cache
     ELSE /\ returned' = [key |-> key, time |-> current_time, data |-> Missing]
          /\ cache' = SelectSeq(cache, LAMBDA entry : entry.key # key)
  /\ UNCHANGED <<pc, args, locals, result, error, invocation, agent,
                 firestore, current_time, rate_limit_storage, handled>>

\* simple_cache.py lines 73-85: an entry written under a key of the
\* dictionary keeps the key's place, a new key goes to the end
Stored(entries, entry) ==
  IF \E i \in 1..Len(entries) : entries[i].key = entry.key
  THEN [i \in 1..Len(entries) |->
          IF entries[i].key = entry.key THEN entry ELSE entries[i]]
  ELSE Append(entries, entry)

cache_set(key, value, ttl_seconds) ==
  /\ cache' =
       Stored(IF Len(cache) >= max_size THEN evict_oldest(cache) ELSE cache,
              CacheEntry(key, value, ttl_seconds))
  /\ UNCHANGED <<pc, args, locals, result, error, invocation, agent,
                 firestore, current_time, rate_limit_storage, handled,
                 returned>>

\* simple_cache.py lines 99-101
cache_clear ==
  /\ cache # << >>
  /\ cache' = << >>
  /\ UNCHANGED <<pc, args, locals, result, error, invocation, agent,
                 firestore, current_time, rate_limit_storage, handled,
                 returned>>

\* the value set names the second it was written in and its time to live
CacheNext ==
  \/ \E key \in {"k1", "k2", "k3"}, ttl_seconds \in {1, 3} :
       cache_set(key, [written_at |-> current_time, ttl |-> ttl_seconds],
                 ttl_seconds)
  \/ \E key \in {"k1", "k2", "k3"} : cache_get(key)
  \/ cache_clear
  \/ Tick

CacheSpec == Init /\ [][CacheNext]_vars

(***************************************************************************)
(* Properties of calculate.                                                *)
(***************************************************************************)
Returned == pc = "returned"
Records == result.allocation_results
Indices(list) == 1..Len(list)

\* the entry passes validate_inputs as calculate would call it on it
EntryIsValid(entry) ==
  validate_inputs(Get(entry.gross_volume_bbl, QInt(0)),
                  Get(entry.bsw_percent, QInt(0)),
                  Get(entry.temperature_degF, QInt(60)),
                  Get(entry.api_gravity, terminal_api)).is_valid

AllEntriesValid ==
  \A i \in Indices(args.production_entries) :
    EntryIsValid(args.production_entries[i])

InputPartners == {args.production_entries[i].partner :
                    i \in Indices(args.production_entries)}

\* C1 (conservation): whenever calculate returns a result for entries that all
\* pass validate_inputs, the allocated volumes of the records sum to the
\* terminal volume within 0.01 bbl.
C1_Conservation ==
  (Returned /\ AllEntriesValid) =>
    QLe(QAbs(QSub(SumField(Records, "allocated_volume", 1), terminal_volume)),
        QDec(1, 2))

\* C2 (cap respected): no record of a returned result has a percentage above
\* MAX_PERCENTAGE = 99.99999.
C2_CapRespected ==
  Returned =>
    \A i \in Indices(Records) : QLe(Records[i].percentage, MAX_PERCENTAGE)

\* C3 (percentage closure): whenever calculate returns a result for entries
\* that all pass validate_inputs, the percentages of the records sum to a
\* value in [99, 101].
C3_PercentageClosure ==
  (Returned /\ AllEntriesValid) =>
    LET total_percentage == SumField(Records, "percentage", 1)
    IN  QLe(QInt(99), total_percentage) /\ QLe(total_percentage, QInt(101))

\* C4 (batch abort): calculate returns no result when any of the production
\* entries it was given violates a field constraint.
C4_BatchAbort == Returned => AllEntriesValid

\* the first of the three input checks that the arguments fail
EmptyEntries == Len(args.production_entries) = 0
VolumeNotPositive == QLe(terminal_volume, QInt(0))
ApiNotPositive == QLe(terminal_api, QInt(0))
BadArguments == EmptyEntries \/ VolumeNotPositive \/ ApiNotPositive

FirstFailedCheck ==
  IF EmptyEntries THEN ErrNoEntries
  ELSE IF VolumeNotPositive THEN ErrTerminalVolume
  ELSE ErrTerminalApi

\* nothing has been aggregated, validated or computed
NothingComputed ==
  /\ production_entries = args.production_entries
  /\ net_volume_results = << >>
  /\ QIsZero(total_gross_volume) /\ QIsZero(total_net_volume)
  /\ shrinkage_analysis = Missing
  /\ raw_allocations = << >>
  /\ capped_partners = << >> /\ uncapped_partners = << >>
  /\ allocation_results = << >>
  /\ result = Missing

\* C5 (input errors come first): a call with no entries, a terminal volume
\* <= 0 or a terminal API <= 0 never gets past the input checks; it has
\* aggregated, validated and computed nothing, and what it raises is the
\* error of the first check that fails, in the order entries, volume, API.
C5_InputErrorsFirst ==
  (pc # "idle" /\ BadArguments) =>
    /\ pc \in {"check", "raised"}
    /\ NothingComputed
    /\ pc = "raised" => error = ValueError(FirstFailedCheck, NoneValue, << >>)

\* a call with entries whose terminal volume and terminal API are both <= 0
\* has raised the terminal volume error
C5_Witness ==
  /\ pc = "raised"
  /\ ~EmptyEntries /\ VolumeNotPositive /\ ApiNotPositive
  /\ error.message = ErrTerminalVolume

\* calculate has taken the aggregation branch (line 147)
Aggregating ==
  /\ pc = "net_volume"
  /\ unique_partners(args.production_entries) < Len(args.production_entries)

\* C6 (aggregation completeness): when calculate aggregates, the list it goes
\* on with holds exactly one entry for each partner of the input.
C6_AggregationComplete ==
  Aggregating =>
    /\ {production_entries[i].partner : i \in Indices(production_entries)}
         = InputPartners
    /\ Len(production_entries) = Cardinality(InputPartners)

\* the sum over the partner's input entries, from the i-th on, of the gross
\* volume times the field named key (of the gross volume for key "")
RECURSIVE PartnerSum(_, _, _, _)
PartnerSum(entries, partner, key, i) ==
  IF i > Len(entries) THEN QInt(0)
  ELSE IF entries[i].partner # partner
  THEN PartnerSum(entries, partner, key, i + 1)
  ELSE QAdd(IF key = "" THEN entries[i].gross_volume_bbl
            ELSE QMul(entries[i][key], entries[i].gross_volume_bbl),
            PartnerSum(entries, partner, key, i + 1))

GrossOf(partner) == PartnerSum(args.production_entries, partner, "", 1)
WeightedOf(partner, key) ==
  PartnerSum(args.production_entries, partner, key, 1)

\* entry is the gross-weighted aggregate of its partner's input entries
IsWeightedAggregate(entry) ==
  /\ QEq(entry.gross_volume_bbl, GrossOf(entry.partner))
  /\ \A key \in {"bsw_percent", "temperature_degF", "api_gravity"} :
       QEq(QMul(entry[key], GrossOf(entry.partner)),
           WeightedOf(entry.partner, key))

\* C7 (aggregation correctness): every aggregated entry has the sum of its
\* partner's gross volumes, and a bsw, temperature and API gravity equal to
\* sum(value x gross) / sum(gross) over the partner's entries; every partner
\* whose gross volumes sum to more than 0 has such an entry.
C7_AggregationCorrect ==
  Aggregating =>
    /\ \A i \in Indices(production_entries) :
         IsWeightedAggregate(production_entries[i])
    /\ \A partner \in InputPartners :
         QLt(QInt(0), GrossOf(partner)) =>
           \E i \in Indices(production_entries) :
             production_entries[i].partner = partner

\* 100 bbl at 5% and 200 bbl at 10% of one partner have become 300 bbl at
\* 2500/300 %
C7_Witness ==
  /\ Aggregating
  /\ \E i \in Indices(production_entries) :
       /\ QEq(production_entries[i].gross_volume_bbl, QInt(300))
       /\ QEq(production_entries[i].bsw_percent, QDiv(QInt(2500), QInt(300)))

\* the second pass and the combination are done, the final adjustment and
\* the rounding are not, and some partner's raw percentage exceeded the cap
CapApplied ==
  /\ pc = "adjust"
  /\ \E i \in Indices(raw_allocations) :
       QLt(MAX_PERCENTAGE, raw_allocations[i].raw_percentage)

\* the raw allocation of the record's partner
RawOf(record) ==
  raw_allocations[CHOOSE i \in Indices(raw_allocations) :
                    raw_allocations[i].partner = record.partner]

CappedPercentage(raw) == QMin(raw.raw_percentage, MAX_PERCENTAGE)

RECURSIVE SumOfCapped(_)
SumOfCapped(i) ==
  IF i > Len(raw_allocations) THEN QInt(0)
  ELSE QAdd(CappedPercentage(raw_allocations[i]), SumOfCapped(i + 1))

NormalizedPercentage(raw) ==
  QMin(QMul(QDiv(CappedPercentage(raw), SumOfCapped(1)), QInt(100)),
       MAX_PERCENTAGE)

\* C8 as stated (cap, then normalize): when a raw percentage exceeds the cap,
\* every record's percentage is its capped percentage over the sum of the
\* capped percentages, times 100, capped again, and its volume is the
\* terminal volume times that percentage / 100.
C8_CapThenNormalize ==
  CapApplied =>
    \A i \in Indices(allocation_results) :
      LET record == allocation_results[i]
          percentage == NormalizedPercentage(RawOf(record))
      IN  /\ QEq(record.percentage, percentage)
          /\ QEq(record.allocated_volume,
                 QMul(terminal_volume, QDiv(percentage, QInt(100))))

\* the terminal volume times the cap, for each partner above the cap
RECURSIVE VolumeOfCapped(_)
VolumeOfCapped(i) ==
  IF i > Len(raw_allocations) THEN QInt(0)
  ELSE QAdd(IF QLt(MAX_PERCENTAGE, raw_allocations[i].raw_percentage)
            THEN QDiv(QMul(terminal_volume, MAX_PERCENTAGE), QInt(100))
            ELSE QInt(0),
            VolumeOfCapped(i + 1))

\* the net volume of the partners not above the cap
RECURSIVE NetOfUncapped(_)
NetOfUncapped(i) ==
  IF i > Len(raw_allocations) THEN QInt(0)
  ELSE QAdd(IF QLt(MAX_PERCENTAGE, raw_allocations[i].raw_percentage)
            THEN QInt(0)
            ELSE raw_allocations[i].net_volume,
            NetOfUncapped(i + 1))

\* the share of what the capped partners left, in proportion to net volume
ShareOfRest(raw) ==
  IF QIsZero(NetOfUncapped(1)) THEN QInt(0)
  ELSE QDiv(QMul(QSub(terminal_volume, VolumeOfCapped(1)), raw.net_volume),
            NetOfUncapped(1))

\* C8 as amended (cap, then redistribute): when a raw percentage exceeds the
\* cap, a partner above the cap has the percentage MAX_PERCENTAGE and the
\* terminal volume times MAX_PERCENTAGE / 100; every other partner has its
\* net-volume share of the terminal volume the capped partners left (0 if the
\* other partners have no net volume), and as percentage that volume over
\* the terminal volume, times 100.
C8_CapThenRedistribute ==
  CapApplied =>
    \A i \in Indices(allocation_results) :
      LET record == allocation_results[i]
          raw == RawOf(record)
      IN  IF QLt(MAX_PERCENTAGE, raw.raw_percentage)
          THEN /\ QEq(record.percentage, MAX_PERCENTAGE)
               /\ QEq(record.allocated_volume,
                      QDiv(QMul(terminal_volume, MAX_PERCENTAGE), QInt(100)))
          ELSE /\ QEq(record.allocated_volume, ShareOfRest(raw))
               /\ QEq(record.percentage,
                      QMul(QDiv(ShareOfRest(raw), terminal_volume), QInt(100)))

\* one partner is above the cap and another one, with a net volume, is not
C8_Witness ==
  /\ CapApplied
  /\ \E i \in Indices(raw_allocations) :
       /\ ~QLt(MAX_PERCENTAGE, raw_allocations[i].raw_percentage)
       /\ QLt(QInt(0), raw_allocations[i].net_volume)

\* C9 (zero total net volume): when calculate returns for valid entries whose
\* net volumes are all 0, every record has allocated_volume 0 and
\* percentage 0.
C9_ZeroNetAllocatesNothing ==
  (Returned /\ AllEntriesValid /\ QIsZero(total_net_volume)) =>
    \A i \in Indices(Records) :
      QIsZero(Records[i].allocated_volume) /\ QIsZero(Records[i].percentage)

\* C10 (single partner): when calculate returns for valid entries of exactly
\* one partner, there is one record, its allocated_volume is the terminal
\* volume rounded to 2 decimals, and its percentage is 100 or MAX_PERCENTAGE.
C10_SinglePartner ==
  (Returned /\ AllEntriesValid /\ Cardinality(InputPartners) = 1) =>
    /\ Len(Records) = 1
    /\ QEq(Records[1].allocated_volume, QRound(terminal_volume, 2))
    /\ \/ QEq(Records[1].percentage, QInt(100))
       \/ QEq(Records[1].percentage, MAX_PERCENTAGE)

\* C12: in every result returned by calculate each record's gross_volume,
\* net_volume and allocated_volume is >= 0
C12_NonNegative ==
  Returned =>
    \A i \in Indices(Records) :
       /\ QLe(QInt(0), Records[i].gross_volume)
       /\ QLe(QInt(0), Records[i].net_volume)
       /\ QLe(QInt(0), Records[i].allocated_volume)

\* a result with a capped partner and partners that share what it left
C12_Witness ==
  /\ Returned
  /\ Len(capped_partners) > 0
  /\ Len(uncapped_partners) > 0
  /\ Len(Records) = Len(capped_partners) + Len(uncapped_partners)

\* C13: what a call returns or raises is what calculate gives for its two
\* arguments alone, whatever calls came before it on the same calculator,
\* and the caller's arguments are as they were passed as long as the call
\* lasts
C13_Deterministic ==
  /\ [](pc = "returned" =>
          /\ ~calculate(args.production_entries, args.terminal_receipt).raised
          /\ result =
               calculate(args.production_entries, args.terminal_receipt).value)
  /\ [](pc = "raised" =>
          /\ calculate(args.production_entries, args.terminal_receipt).raised
          /\ error =
               calculate(args.production_entries, args.terminal_receipt).value)
  /\ [][pc # "idle" /\ pc' # "idle" => args' = args]_vars

\* a call has returned the allocations of several partners after its
\* entries were aggregated
C13_Witness ==
  /\ Returned
  /\ Len(production_entries) < Len(args.production_entries)
  /\ Len(Records) > 1

\* C18: in every record returned by calculate, percentage is
\* allocated_volume / terminal_volume x 100 rounded to 2 decimals and
\* volume_loss is gross_volume - allocated_volume, both from the final
\* allocated_volume of the record
C18_PercentageFromVolume ==
  Returned =>
    \A i \in Indices(Records) :
       /\ QEq(Records[i].percentage,
              QRound(QMul(QDiv(Records[i].allocated_volume, terminal_volume),
                          QInt(100)), 2))
       /\ QEq(Records[i].volume_loss,
              QRound(QSub(Records[i].gross_volume,
                          Records[i].allocated_volume), 2))

\* a record whose allocated volume is all reconciliation difference: every
\* net volume is 0 and the terminal volume went to the first record
C18_Witness ==
  /\ Returned
  /\ Len(Records) > 0
  /\ QIsZero(total_net_volume)
  /\ QLt(QInt(0), Records[1].allocated_volume)
  /\ QLt(Records[1].volume_loss, QInt(0))

\* C19: whenever calculate returns a result, the allocated volumes are
\* within 1.0 bbl of the terminal volume in all and there is at least one
\* allocation record
C19_VarianceSmall ==
  Returned =>
    /\ Len(Records) >= 1
    /\ QLe(QAbs(QSub(SumField(Records, "allocated_volume", 1),
                     terminal_volume)),
           QInt(1))
    /\ QLe(result.allocation_variance, QInt(1))

\* C23 (partner identifier required): calculate returns allocation records
\* only for batches in which every entry names its partner; an entry with an
\* empty partner identifier makes it raise
C23_PartnerRequired ==
  Returned =>
    \A i \in Indices(args.production_entries) :
      args.production_entries[i].partner # ""

\* what the second pass allocated, in the order of the records, each volume
\* rounded to 2 decimals
RoundedShares ==
  [i \in 1..(Len(capped_partners) + Len(uncapped_partners)) |->
     [allocated_volume |->
        QRound((capped_partners \o uncapped_partners)[i].final_allocated, 2)]]

\* the rounded shares with terminal_volume minus their sum added to the
\* largest of them, which is rounded again
ReconciledAfterRounding ==
  LET difference ==
        QSub(terminal_volume, SumField(RoundedShares, "allocated_volume", 1))
  IN  IF Len(RoundedShares) = 0 \/ QIsZero(difference)
      THEN RoundedShares
      ELSE [RoundedShares EXCEPT
              ![largest_idx(RoundedShares)].allocated_volume =
                 QRound(QAdd(@, difference), 2)]

\* C24 (reconciliation after rounding): the allocated volumes calculate
\* returns are the shares of the second pass rounded to 2 decimals, with
\* the difference between the terminal volume and the sum of the rounded
\* shares added to the largest one, re-rounded, and the other records left
\* at their rounded share
C24_ReconciledAfterRounding ==
  Returned =>
    /\ Len(Records) = Len(RoundedShares)
    /\ \A i \in Indices(Records) :
         QEq(Records[i].allocated_volume,
             ReconciledAfterRounding[i].allocated_volume)

\* C26 (record order as stated): the records calculate returns are in the
\* order of the aggregated production entries
C26_InputOrder ==
  Returned =>
    /\ Len(Records) = Len(production_entries)
    /\ \A i \in Indices(Records) :
         Records[i].partner = production_entries[i].partner

AboveCap(i) == QLt(MAX_PERCENTAGE, raw_allocations[i].raw_percentage)
NotAboveCap(i) == ~AboveCap(i)

\* the indices of the aggregated entries: those whose raw percentage is
\* above the cap, then the others, each group in the order of the entries
CappedFirst ==
  LET indices == [i \in 1..Len(raw_allocations) |-> i]
  IN  SelectSeq(indices, AboveCap) \o SelectSeq(indices, NotAboveCap)

\* C26 (record order, amended): the records calculate returns are those of
\* the partners above the cap first, then those of the other partners, each
\* group in the order of the aggregated production entries
C26_CappedFirstOrder ==
  Returned =>
    /\ Len(Records) = Len(production_entries)
    /\ \A i \in Indices(Records) :
         Records[i].partner = production_entries[CappedFirst[i]].partner

\* a call has returned with the record of a capped partner moved ahead of
\* the record of an entry that came before it
C26_Witness ==
  /\ Returned
  /\ Len(capped_partners) = 1
  /\ Len(Records) > 1
  /\ Records[1].partner # production_entries[1].partner

\* C27 (at most one partner capped): once the second pass is done, at most
\* one partner has a raw percentage above MAX_PERCENTAGE, the capped
\* allocation is at most the terminal volume, and the uncapped partners
\* with a total net volume above 0 share exactly the terminal volume minus
\* the capped allocation
C27_AtMostOneCapped ==
  pc = "combine" =>
    /\ Cardinality({i \in Indices(raw_allocations) : AboveCap(i)}) <= 1
    /\ Len(capped_partners) <= 1
    /\ QLe(SumField(capped_partners, "final_allocated", 1), terminal_volume)
    /\ QLt(QInt(0), SumField(uncapped_partners, "net_volume", 1)) =>
         QEq(SumField(uncapped_partners, "final_allocated", 1),
             QSub(terminal_volume,
                  SumField(capped_partners, "final_allocated", 1)))

\* the second pass has capped one partner and left the rest to another one,
\* which has a net volume
C27_Witness ==
  /\ pc = "combine"
  /\ Len(capped_partners) = 1
  /\ Len(uncapped_partners) >= 1
  /\ QLt(QInt(0), SumField(uncapped_partners, "net_volume", 1))

\* the partner has one entry among those passed to calculate
SingleEntry(partner) ==
  Cardinality({i \in Indices(args.production_entries) :
                 args.production_entries[i].partner = partner}) = 1

\* the record holds the net volume and the factors of the other record
SameTreatment(record, other) ==
  /\ QEq(record.net_volume, other.net_volume)
  /\ QEq(record.gross_volume, other.gross_volume)
  /\ QEq(record.water_cut_factor, other.water_cut_factor)
  /\ QEq(record.temp_correction, other.temp_correction)
  /\ QEq(record.api_correction, other.api_correction)

\* C28 (no dependence on other partners' duplicates): when calculate returns
\* for a batch that went through the aggregation, every partner with a
\* single entry is treated as calculate treats that entry in a batch of its
\* own: the entry is not rejected there, and the partner's record holds the
\* same net volume, gross volume and factors
C28_IndependentOfDuplicates ==
  (Returned /\
   unique_partners(args.production_entries) < Len(args.production_entries)) =>
    \A i \in Indices(args.production_entries) :
      SingleEntry(args.production_entries[i].partner) =>
        LET alone == calculate(<<args.production_entries[i]>>,
                               args.terminal_receipt)
        IN  /\ ~alone.raised
            /\ \E k \in Indices(Records) :
                 /\ Records[k].partner = args.production_entries[i].partner
                 /\ SameTreatment(Records[k],
                                  alone.value.allocation_results[1])

(***************************************************************************)
(* Properties of the methods called by themselves.                         *)
(***************************************************************************)
Invoked(method) == invocation.method = method

\* gross > 0, BS&W in [0, 100), temperature in [-50, 200] and API in
\* [10, 45], which is what validate_inputs accepts
InNormalRanges(gross_volume, bsw_percent, temperature_degf, api_gravity) ==
  /\ QLt(QInt(0), gross_volume)
  /\ QLe(QInt(0), bsw_percent) /\ QLt(bsw_percent, QInt(100))
  /\ QLe(QInt(-50), temperature_degf) /\ QLe(temperature_degf, QInt(200))
  /\ QLe(QInt(10), api_gravity) /\ QLe(api_gravity, QInt(45))

\* C11: for an entry in the normal ranges and any terminal API > 0,
\* calculate_net_volume returns net_volume <= gross_volume
C11_NetAtMostGross ==
  (/\ Invoked("calculate_net_volume")
   /\ InNormalRanges(invocation.args[1], invocation.args[2],
                     invocation.args[3], invocation.args[4])
   /\ QLt(QInt(0), invocation.args[5]))
  => QLe(invocation.result.net_volume, invocation.result.gross_volume)

\* calculate_shrinkage_factor was called with total_net_volume >= 0 and
\* terminal_volume > 0
ShrinkageCalled ==
  /\ Invoked("calculate_shrinkage_factor")
  /\ QLe(QInt(0), invocation.args[1])
  /\ QLt(QInt(0), invocation.args[2])

\* C14 as stated: the shrinkage factor is < 0 whenever the terminal volume
\* is above the total net volume and > 0 whenever it is below it
C14_ShrinkageSign ==
  ShrinkageCalled =>
    /\ QLt(invocation.args[1], invocation.args[2])
         => QLt(invocation.result, QInt(0))
    /\ QLt(invocation.args[2], invocation.args[1])
         => QLt(QInt(0), invocation.result)

\* the difference is more than 0.005 % of the total net volume, so that the
\* factor does not round to 0.00
ShrinkageShows ==
  /\ QLt(QInt(0), invocation.args[1])
  /\ QLt(invocation.args[1],
         QMul(QInt(20000),
              QAbs(QSub(invocation.args[1], invocation.args[2]))))

\* C14, amended: the shrinkage factor is <= 0 whenever the terminal volume
\* is above the total net volume and >= 0 whenever it is below it; it is
\* not 0 when the difference is more than 0.005 % of a total net volume > 0,
\* and it is 0 when the total net volume is 0
C14_ShrinkageSignRounded ==
  ShrinkageCalled =>
    /\ QLt(invocation.args[1], invocation.args[2])
         => QLe(invocation.result, QInt(0))
    /\ QLt(invocation.args[2], invocation.args[1])
         => QLe(QInt(0), invocation.result)
    /\ ShrinkageShows => ~QIsZero(invocation.result)
    /\ QIsZero(invocation.args[1]) => QIsZero(invocation.result)

\* a gain of 0.01 bbl on 100 000 bbl, which rounds to a factor of 0.00
C14_Witness ==
  /\ ShrinkageCalled
  /\ QEq(invocation.args[1], QInt(100000))
  /\ QLt(invocation.args[1], invocation.args[2])
  /\ QIsZero(invocation.result)

\* the message is one of those the validation reports
Reports(message) ==
  \E i \in 1..Len(invocation.result.errors) :
     invocation.result.errors[i] = message

\* how many of the four constraints the arguments of validate_inputs violate
ViolatedConstraints ==
  (IF QLe(invocation.args[1], QInt(0)) THEN 1 ELSE 0)
  + (IF QLt(invocation.args[2], QInt(0)) \/ QLe(QInt(100), invocation.args[2])
     THEN 1 ELSE 0)
  + (IF QLt(invocation.args[3], QInt(-50)) \/ QLt(QInt(200), invocation.args[3])
     THEN 1 ELSE 0)
  + (IF QLt(invocation.args[4], QInt(10)) \/ QLt(QInt(45), invocation.args[4])
     THEN 1 ELSE 0)

\* C15: validate_inputs returns is_valid = true iff gross > 0, 0 <= bsw < 100,
\* -50 <= temperature <= 200 and 10 <= API <= 45, and otherwise one message
\* for each violated constraint, all of them in the one result
C15_ValidateInputsComplete ==
  Invoked("validate_inputs") =>
    /\ invocation.result.is_valid
         <=> InNormalRanges(invocation.args[1], invocation.args[2],
                            invocation.args[3], invocation.args[4])
    /\ Len(invocation.result.errors) = ViolatedConstraints
    /\ Reports(ErrGross) <=> QLe(invocation.args[1], QInt(0))
    /\ Reports(ErrBsw)
         <=> (QLt(invocation.args[2], QInt(0))
              \/ QLe(QInt(100), invocation.args[2]))
    /\ Reports(ErrTemp)
         <=> (QLt(invocation.args[3], QInt(-50))
              \/ QLt(QInt(200), invocation.args[3]))
    /\ Reports(ErrApi)
         <=> (QLt(invocation.args[4], QInt(10))
              \/ QLt(QInt(45), invocation.args[4]))

\* gross_volume = 0 with the three other constraints violated as well: four
\* messages in one result
C15_Witness ==
  /\ Invoked("validate_inputs")
  /\ QIsZero(invocation.args[1])
  /\ ~invocation.result.is_valid
  /\ Reports(ErrGross)
  /\ Len(invocation.result.errors) = 4

\* the checks of validate_allocations, stated on the records themselves
VolumesNotNegative(records) ==
  \A i \in Indices(records) :
     \A key \in {"allocated_volume", "gross_volume", "net_volume"} :
        QSign(Get(records[i][key], QInt(0))) >= 0

PercentagesClose(records) ==
  /\ QLe(QInt(99), SumPercentage(records, 1))
  /\ QLe(SumPercentage(records, 1), QInt(101))

NetWithinGross(records) ==
  \A i \in Indices(records) :
     ~QLt(Get(records[i].gross_volume, QInt(0)),
          Get(records[i].net_volume, QInt(0)))

Names(message) ==
  /\ "error" \in DOMAIN invocation.result
  /\ \E i \in 1..Len(invocation.result.error) :
        invocation.result.error[i] = message

\* C16: for a non-empty list validate_allocations returns is_valid = true
\* iff all volumes are >= 0, the percentages sum to a value in [99, 101] and
\* every net volume is <= its gross volume; 'error' is there iff is_valid is
\* false and names each failed check; the records are left as they were; an
\* empty list gives is_valid = false
C16_ValidateAllocationsPure ==
  Invoked("validate_allocations") =>
    /\ invocation.args_after = invocation.args
    /\ ("error" \in DOMAIN invocation.result) <=> ~invocation.result.is_valid
    /\ Len(invocation.args[1]) = 0 => ~invocation.result.is_valid
    /\ Len(invocation.args[1]) > 0 =>
         /\ invocation.result.is_valid
              <=> (/\ VolumesNotNegative(invocation.args[1])
                   /\ PercentagesClose(invocation.args[1])
                   /\ NetWithinGross(invocation.args[1]))
         /\ Names(ErrNegative) <=> ~VolumesNotNegative(invocation.args[1])
         /\ Names(ErrPercentages) <=> ~PercentagesClose(invocation.args[1])
         /\ Names(ErrNetExceedsGross) <=> ~NetWithinGross(invocation.args[1])

\* two records that fail the three checks together
C16_Witness ==
  /\ Invoked("validate_allocations")
  /\ Len(invocation.args[1]) = 2
  /\ ~invocation.result.is_valid
  /\ Names(ErrNegative)
  /\ Names(ErrPercentages)
  /\ Names(ErrNetExceedsGross)

\* C17: in every result of calculate_net_volume the three deductions as
\* returned add up to gross_volume - net_volume
C17_Waterfall ==
  Invoked("calculate_net_volume") =>
    QEq(QAdd(QAdd(invocation.result.bsw_deduction,
                  invocation.result.temperature_adjustment),
             invocation.result.api_adjustment),
        QSub(invocation.result.gross_volume, invocation.result.net_volume))

\* C20: whatever the inputs, calculate_water_cut_factor returns a value in
\* (0, 1], that of bsw clamped to [0, 99.99] when bsw is outside [0, 100);
\* TemperatureCorrector.calculate_correction returns a value in [0.95, 1.05];
\* APICorrector.calculate_correction returns a value in [0.9, 1.15] for a
\* terminal API > 0 and an observed API >= 0
C20_FactorsInRange ==
  /\ Invoked("calculate_water_cut_factor") =>
       /\ QLt(QInt(0), invocation.result)
       /\ QLe(invocation.result, QInt(1))
       /\ QLt(invocation.args[1], QInt(0)) => QEq(invocation.result, QInt(1))
       /\ QLe(QInt(100), invocation.args[1])
            => QEq(invocation.result, QDec(1, 4))
  /\ Invoked("TemperatureCorrector.calculate_correction") =>
       /\ QLe(QDec(95, 2), invocation.result)
       /\ QLe(invocation.result, QDec(105, 2))
  /\ (/\ Invoked("APICorrector.calculate_correction")
      /\ QLe(QInt(0), invocation.args[1])
      /\ QLt(QInt(0), invocation.args[2])) =>
       /\ QLe(QDec(9, 1), invocation.result)
       /\ QLe(invocation.result, QDec(115, 2))

\* 1000 F: the factor computed is below 0.95 and 0.95 is returned
C20_Witness ==
  /\ Invoked("TemperatureCorrector.calculate_correction")
  /\ QEq(invocation.args[1], QInt(1000))
  /\ QEq(invocation.result, QDec(95, 2))

(***************************************************************************)
(* Properties of AccountantAgent.calculate_allocation.                     *)
(***************************************************************************)
\* what validate_allocations says of the records calculate returned
Validity == validate_allocations(result.allocation_results).is_valid

\* C21 (persisted status follows the validation flag): the receipt written
\* by the agent has allocation_status 'completed' when validate_allocations
\* returned is_valid = true and 'failed' otherwise, with the records and
\* total_allocated of calculate in it; once calculate has returned the agent
\* does not raise, it attempts the write whatever the flag is, and what it
\* returns holds the same records, total and flag
C21_StatusFollowsValidation ==
  /\ firestore.terminal_receipts # Missing =>
       /\ firestore.terminal_receipts.allocation_status =
            (IF Validity THEN "completed" ELSE "failed")
       /\ firestore.terminal_receipts.allocations = result.allocation_results
       /\ firestore.terminal_receipts.total_allocated = result.total_allocated
  /\ agent.update = "done" => firestore.terminal_receipts # Missing
  /\ pc = "returned" => agent.pc # "raised"
  /\ agent.pc = "returned" =>
       /\ pc = "returned"
       /\ agent.update \in {"done", "failed"}
       /\ agent.result.allocations = result.allocation_results
       /\ agent.result.total_allocated = result.total_allocated
       /\ agent.result.validation_status = Validity

\* the agent has returned records that failed the validation, and the
\* receipt holds them with the status 'failed'
C21_Witness ==
  /\ agent.pc = "returned"
  /\ ~agent.result.validation_status
  /\ firestore.terminal_receipts # Missing
  /\ firestore.terminal_receipts.allocation_status = "failed"
  /\ Len(firestore.terminal_receipts.allocations) > 0

\* C22 (persistence only after a finished result): a thread of
\* _save_results is started, and the receipt or the activity log written,
\* only when calculate has returned and the AllocationResult holds its
\* validated records; while calculate runs, and when it or the agent's own
\* check of the entries raises, nothing is started and nothing is written
C22_PersistAfterResult ==
  /\ (agent.update # "" \/ agent.log # "" \/ firestore # NothingWritten) =>
       /\ pc = "returned"
       /\ agent.pc \in {"saving", "returned"}
       /\ agent.result =
            AllocationResult(result,
                             [is_valid |-> Validity])
  /\ (pc # "returned" \/ agent.pc = "raised") =>
       /\ firestore = NothingWritten
       /\ agent.update = ""
       /\ agent.log = ""

\* calculate has raised, the agent has raised, and nothing is written
C22_Witness ==
  /\ pc = "raised"
  /\ agent.pc = "raised"
  /\ Len(args.production_entries) > 0
  /\ firestore = NothingWritten

\* C25 (a persistence failure does not fail the allocation): when the
\* receipt update has raised, the agent does not raise: it is saving or has
\* returned the AllocationResult it built; the activity log was started
\* with the update and is written whether the update raised or not; a
\* failure of the activity log leaves the update as it is
C25_SaveFailureTolerated ==
  /\ agent.update = "failed" =>
       /\ agent.pc \in {"saving", "returned"}
       /\ agent.result.allocations = result.allocation_results
       /\ agent.log \in {"pending", "done"}
  /\ (agent.update = "") <=> (agent.log = "")
  /\ agent.pc = "raised" => agent.update = "" /\ agent.log = ""
  /\ (agent.log = "done" /\ firestore.agent_logs = Missing) =>
       /\ agent.pc \in {"saving", "returned"}
       /\ agent.update \in {"pending", "done", "failed"}

\* the agent has returned after the receipt update raised, and the activity
\* log is written
C25_Witness ==
  /\ agent.pc = "returned"
  /\ agent.update = "failed"
  /\ firestore.terminal_receipts = Missing
  /\ firestore.agent_logs # Missing

(***************************************************************************)
(* Properties of the rate limiter and of the cache.                        *)
(***************************************************************************)
\* the requests of the client that were passed on to the handler for a
\* limited path in the window that ends at second t
AdmittedWithin(ip, t) ==
  {k \in 1..Len(handled) :
     /\ handled[k].client = ip
     /\ handled[k].path \notin {"/health", "/"}
     /\ t - handled[k].time < RATE_LIMIT_WINDOW
     /\ handled[k].time <= t}

\* the step answers a request (the answer, or what was passed on, changes)
Answers == returned' # returned \/ handled' # handled

\* C29 (rate limit per client): of the requests of one client to a limited
\* path, at most RATE_LIMIT_REQUESTS are passed on to the handler within
\* any window of RATE_LIMIT_WINDOW seconds; a request to a limited path is
\* answered 429 and not passed on exactly when RATE_LIMIT_REQUESTS admitted
\* requests of its client lie within the window, whatever was rejected
\* before; it is recorded only if it is admitted; a request to '/health' or
\* '/' is passed on and leaves the storage as it is
C29_RateLimit ==
  /\ [](\A ip \in {"10.0.0.1", "10.0.0.2"}, t \in 0..current_time :
          Cardinality(AdmittedWithin(ip, t)) <= RATE_LIMIT_REQUESTS)
  /\ [][Answers =>
          LET request == returned'
              passed == [client |-> request.client, path |-> request.path,
                         time |-> request.time]
          IN  IF request.path \in {"/health", "/"}
              THEN /\ request.status_code = 200
                   /\ handled' = Append(handled, passed)
                   /\ rate_limit_storage' = rate_limit_storage
              ELSE IF Cardinality(AdmittedWithin(request.client, current_time))
                        >= RATE_LIMIT_REQUESTS
              THEN /\ request.status_code = 429
                   /\ handled' = handled
                   /\ Len(rate_limit_storage'[request.client]) =
                        Cardinality(AdmittedWithin(request.client,
                                                   current_time))
              ELSE /\ request.status_code = 200
                   /\ handled' = Append(handled, passed)
                   /\ Len(rate_limit_storage'[request.client]) =
                        Cardinality(AdmittedWithin(request.client,
                                                   current_time)) + 1]_vars

\* a client was rejected, then admitted again as soon as its oldest admitted
\* request was a window old, while the other client was admitted meanwhile
C29_Witness ==
  /\ returned.status_code = 200
  /\ returned.path = "/allocate"
  /\ returned.time = RATE_LIMIT_WINDOW
  /\ Cardinality(AdmittedWithin(returned.client, 0)) = RATE_LIMIT_REQUESTS
  /\ \E k \in 1..Len(handled) : handled[k].client # returned.client

\* C30 (cache bound and freshness): the cache never holds more than max_size
\* entries; what get returns is the data of an entry whose time to live has
\* not run out; and the key of a get that returned nothing is not in the
\* cache after it
C30_CacheBoundAndFreshness ==
  /\ [](Len(cache) <= max_size)
  /\ [](returned.data # Missing =>
          returned.time <= returned.data.written_at + returned.data.ttl)
  /\ [][(returned' # returned /\ returned'.data = Missing) =>
          \A i \in 1..Len(cache') : cache'[i].key # returned'.key]_vars

\* the cache is full, a get has returned data written a second or more
\* before, and an entry whose time to live has run out is still stored
C30_Witness ==
  /\ Len(cache) = max_size
  /\ returned.data # Missing
  /\ returned.time > returned.data.written_at
  /\ \E i \in 1..Len(cache) : is_expired(cache[i])

====
